---- MODULE Spec2Model ----
(***************************************************************************)
(* AgentStats: event ingestion, session lifecycle, cumulative-to-delta     *)
(* conversion of OTLP metrics and the SSE broadcaster.                     *)
(*                                                                         *)
(* The server is a single Node.js process: every HTTP handler and every    *)
(* timer callback runs to completion, so each handler is one action.       *)
(***************************************************************************)
EXTENDS Integers, Sequences, FiniteSets, TLC

VARIABLES now, agents, sessions, events, published, cumulativeState,
          clients, conns, delivered, resp, process, import_state, disk

vars == <<now, agents, sessions, events, published, cumulativeState,
          clients, conns, delivered, resp, process, import_state, disk>>

(***************************************************************************)
(* Bounds of the model.                                                    *)
(***************************************************************************)
MaxTime == 3
MaxEvents == 2
MaxBatch == 2
MaxConns == 4
MaxFeedConns == 2

(***************************************************************************)
(* Program constants.                                                      *)
(***************************************************************************)
sessionTimeoutMinutes == 1
maxSseClients == 2
maxBackpressureWrites == 3
maxPayloadKB == 1

NULL == "NULL"
NoTime == -1
NoNum == -1

SessionIds == {"s1", "s2"}
AgentTypes == {"claude_code", "codex"}

\* Session ids and service names of OTLP metric resources.
MetricSessions == {"sA", "sA|b"}
MetricServices == {"svc", "b|svc"}

\* The session id parseOtelMetrics gives a resource that carries none.
UnknownSession == "unknown"

AllSessionIds == SessionIds \cup MetricSessions \cup {UnknownSession}
AllAgentTypes == AgentTypes \cup MetricServices

EVENT_TYPES == {"tool_use", "session_start", "session_end", "error",
                "llm_request", "llm_response", "file_change", "git_commit",
                "plan_step", "user_prompt"}

EVENT_SOURCES == {"api", "hook", "otel", "import"}

EVENT_STATUSES == {"success", "error", "timeout"}

\* JS truthiness of an optional string: undefined, null and "" are falsy.
Truthy(s) == s # NULL /\ s # ""

\* x || null
OrNull(s) == IF Truthy(s) THEN s ELSE NULL

\* String.prototype.trim on the strings of the model.
Trim(s) == CASE s = " " -> ""
             [] s = " s1 " -> "s1"
             [] OTHER -> s

(***************************************************************************)
(* Metadata capping.  A string is a sequence of runs [w, n]: n characters  *)
(* of w UTF-8 bytes each, adjacent runs having different widths.  A        *)
(* metadata value is a string, an array of one string, or an object whose  *)
(* entries hold a key and a string or literal value.                       *)
(***************************************************************************)
ascii(n) == IF n = 0 THEN <<>> ELSE <<[w |-> 1, n |-> n]>>

chars(w, n) == IF n = 0 THEN <<>> ELSE <<[w |-> w, n |-> n]>>

\* String concatenation.
cat(a, b) ==
  IF a = <<>> THEN b
  ELSE IF b = <<>> THEN a
  ELSE IF a[Len(a)].w = b[1].w
    THEN SubSeq(a, 1, Len(a) - 1)
           \o <<[w |-> b[1].w, n |-> a[Len(a)].n + b[1].n]>>
           \o Tail(b)
    ELSE a \o b

RECURSIVE byteLength(_)
\* Buffer.byteLength(s, 'utf8')
byteLength(s) ==
  IF s = <<>> THEN 0 ELSE Head(s).w * Head(s).n + byteLength(Tail(s))

RECURSIVE sliceLoop(_, _, _, _)
\* The loop of utf8SliceByBytes, taken one run of equal-width characters
\* at a time: it stops at the first character that does not fit.
sliceLoop(input, maxBytes, currentBytes, out) ==
  IF input = <<>> THEN out
  ELSE LET r == Head(input)
           fit == (maxBytes - currentBytes) \div r.w
       IN IF fit >= r.n
            THEN sliceLoop(Tail(input), maxBytes,
                           currentBytes + r.w * r.n, cat(out, <<r>>))
            ELSE cat(out, chars(r.w, fit))

utf8SliceByBytesMut(input, maxBytes) == input

utf8SliceByBytes(input, maxBytes) ==
  IF maxBytes <= 0 THEN <<>> ELSE sliceLoop(input, maxBytes, 0, <<>>)

METADATA_PRIORITY_KEYS ==
  <<"command", "file_path", "query", "pattern", "error", "message",
    "tool_name", "path", "type">>

NoMetadata == [kind |-> "none", text |-> <<>>, entries |-> <<>>]

EmptyObject == [kind |-> "object", text |-> <<>>, entries |-> <<>>]

\* metadata ?? {}
OrEmptyObject(metadata) ==
  IF metadata.kind = "none" THEN EmptyObject ELSE metadata

\* Text between an opening and a closing run of n ASCII characters.
enclose(n, text) == cat(ascii(n), cat(text, ascii(n)))

\* "key":value, the value quoted when it is a string.
entryJson(e) ==
  cat(ascii(Len(e.key) + 3), IF e.quoted THEN enclose(1, e.val) ELSE e.val)

RECURSIVE entriesJson(_, _)
entriesJson(entries, i) ==
  IF i > Len(entries) THEN <<>>
  ELSE cat(IF i > 1 THEN ascii(1) ELSE <<>>,
           cat(entryJson(entries[i]), entriesJson(entries, i + 1)))

\* JSON.stringify of the values of the model (none of them is cyclic).
stringify(v) ==
  IF v.kind = "object" THEN enclose(1, entriesJson(v.entries, 1))
  ELSE IF v.kind = "array" THEN enclose(2, v.text)
  ELSE enclose(1, v.text)

safeJsonStringify(value) == stringify(OrEmptyObject(value))

RECURSIVE digits(_)
digits(n) == IF n < 10 THEN 1 ELSE 1 + digits(n \div 10)

summaryEntries(originalBytes) ==
  <<[key |-> "_truncated", val |-> ascii(4), quoted |-> FALSE],
    [key |-> "_original_bytes", val |-> ascii(digits(originalBytes)),
     quoted |-> FALSE]>>

RECURSIVE priorityEntries(_, _)
\* The loop over METADATA_PRIORITY_KEYS of buildTruncatedObjectSummary.
priorityEntries(entries, k) ==
  IF k > Len(METADATA_PRIORITY_KEYS) THEN <<>>
  ELSE LET own == SelectSeq(entries,
                            LAMBDA e : e.key = METADATA_PRIORITY_KEYS[k])
       IN (IF own = <<>> THEN <<>> ELSE <<own[Len(own)]>>)
            \o priorityEntries(entries, k + 1)

buildTruncatedObjectSummary(metadata, originalBytes) ==
  safeJsonStringify(
    [kind |-> "object", text |-> <<>>,
     entries |-> summaryEntries(originalBytes)
                   \o priorityEntries(metadata.entries, 1)])

buildTruncatedGenericSummary(originalBytes) ==
  safeJsonStringify([kind |-> "object", text |-> <<>>,
                     entries |-> summaryEntries(originalBytes)])

maxBytes == IF maxPayloadKB * 1024 > 0 THEN maxPayloadKB * 1024 ELSE 0

\* The last two returns of truncateMetadata: the summary, cut at the cap
\* when it does not fit either.
capSummary(summary) ==
  [value |-> IF byteLength(summary) <= maxBytes THEN summary
             ELSE utf8SliceByBytes(summary, maxBytes),
   truncated |-> TRUE]

\* truncateMetadata once the text and its byte length are known.
capText(metadata, text, len) ==
  IF len <= maxBytes THEN [value |-> text, truncated |-> FALSE]
  ELSE IF metadata.kind = "string"
    THEN [value |-> utf8SliceByBytes(text, maxBytes), truncated |-> TRUE]
  ELSE IF metadata.kind = "object"
    THEN capSummary(buildTruncatedObjectSummary(metadata, len))
  ELSE capSummary(buildTruncatedGenericSummary(len))

capMeasured(metadata, text) == capText(metadata, text, byteLength(text))

truncateMetadata(metadata) ==
  capMeasured(OrEmptyObject(metadata),
              IF metadata.kind = "string" THEN metadata.text
              ELSE safeJsonStringify(metadata))

(***************************************************************************)
(* Event Contract                                                          *)
(***************************************************************************)
\* Errors pushed by getRequiredString (the set of failing fields).
getRequiredStringErr(raw, field) ==
  IF raw = NULL THEN {field}
  ELSE IF Trim(raw) = "" THEN {field} ELSE {}

getRequiredString(raw) == IF raw = NULL THEN "" ELSE Trim(raw)

getOptionalString(raw) ==
  IF raw = NULL THEN NULL
  ELSE IF Trim(raw) = "" THEN NULL ELSE Trim(raw)

normalizeEventTypeErr(value) ==
  IF value \notin EVENT_TYPES THEN {"event_type"} ELSE {}

normalizeStatusErr(raw) ==
  IF raw = NULL THEN {}
  ELSE IF raw \notin EVENT_STATUSES THEN {"status"} ELSE {}

normalizeStatus(raw, eventType) ==
  IF raw = NULL THEN (IF eventType = "error" THEN "error" ELSE "success")
  ELSE raw

\* Numeric fields of the model are integers; NoNum stands for an absent
\* (undefined or null) number.
getOptionalNonNegativeIntErr(raw, field) ==
  IF raw = NoNum THEN {} ELSE IF raw < 0 THEN {field} ELSE {}

getOptionalNonNegativeInt(raw) ==
  IF raw = NoNum THEN NoNum ELSE IF raw < 0 THEN NoNum ELSE raw

\* Money is an integer number of 10^-8 USD, so a non-negative number is a
\* non-negative integer of the model.
getOptionalNonNegativeNumberErr(raw, field) ==
  IF raw = NoNum THEN {} ELSE IF raw < 0 THEN {field} ELSE {}

getOptionalNonNegativeNumber(raw) ==
  IF raw = NoNum THEN NoNum ELSE IF raw < 0 THEN NoNum ELSE raw

\* new Date(raw).toISOString() on the timestamp strings of the model; a
\* string outside the domain gives an invalid date.
DateParse ==
  [raw \in {"2026-01-02T03:04:05.000Z", "2026-01-02T04:04:05+01:00"}
     |-> "2026-01-02T03:04:05.000Z"]

normalizeClientTimestampErr(raw) ==
  IF raw = NULL THEN {}
  ELSE IF raw \notin DOMAIN DateParse THEN {"client_timestamp"} ELSE {}

normalizeClientTimestamp(raw) ==
  IF raw = NULL THEN NULL
  ELSE IF raw \notin DOMAIN DateParse THEN NULL ELSE DateParse[raw]

\* x ?? 0
OrZero(n) == IF n = NoNum THEN 0 ELSE n

normalizeErrorsMut(input) ==
  IF getRequiredStringErr(input.session_id, "session_id") # {}
    THEN {"session_id"}
  ELSE IF normalizeEventTypeErr(getRequiredString(input.event_type)) # {}
    THEN {"event_type"}
  ELSE normalizeStatusErr(input.status)
         \cup getOptionalNonNegativeIntErr(input.tokens_in, "tokens_in")
         \cup normalizeClientTimestampErr(input.client_timestamp)

\* The fields of the errors array after every reader has run.
normalizeErrors(input) ==
  getRequiredStringErr(input.session_id, "session_id")
    \cup getRequiredStringErr(input.agent_type, "agent_type")
    \cup getRequiredStringErr(input.event_type, "event_type")
    \cup normalizeEventTypeErr(getRequiredString(input.event_type))
    \cup normalizeStatusErr(input.status)
    \cup getOptionalNonNegativeIntErr(input.tokens_in, "tokens_in")
    \cup getOptionalNonNegativeIntErr(input.tokens_out, "tokens_out")
    \cup getOptionalNonNegativeNumberErr(input.cost_usd, "cost_usd")
    \cup normalizeClientTimestampErr(input.client_timestamp)

normalizeIngestEvent(input) ==
  LET errors == normalizeErrors(input)
      eventType == getRequiredString(input.event_type)
  IN IF errors # {}
       THEN [ok |-> FALSE, errors |-> errors]
       ELSE [ok |-> TRUE,
             event |-> [event_id |-> getOptionalString(input.event_id),
                        session_id |-> getRequiredString(input.session_id),
                        agent_type |-> getRequiredString(input.agent_type),
                        event_type |-> eventType,
                        status |-> normalizeStatus(input.status, eventType),
                        tokens_in |->
                          OrZero(getOptionalNonNegativeInt(input.tokens_in)),
                        tokens_out |->
                          OrZero(getOptionalNonNegativeInt(input.tokens_out)),
                        cache_read_tokens |-> 0,
                        cache_write_tokens |-> 0,
                        project |-> getOptionalString(input.project),
                        branch |-> getOptionalString(input.branch),
                        model |-> getOptionalString(input.model),
                        cost_usd |->
                          getOptionalNonNegativeNumber(input.cost_usd),
                        client_timestamp |->
                          normalizeClientTimestamp(input.client_timestamp),
                        source |-> getOptionalString(input.source),
                        metadata |-> OrEmptyObject(input.metadata)]]

(***************************************************************************)
(* Pricing Registry.  Money is counted in units of 10^-8 USD, so a rate    *)
(* of 3 USD per million tokens is 300 units per token.                     *)
(***************************************************************************)
\* The canonical names of the models map.
PricingModels == {"claude-sonnet-4-5-20250929", "o3"}

\* The per-token rates of a canonical name.
pricing(model) ==
  IF model = "o3"
    THEN [inputCostPerToken |-> 200, outputCostPerToken |-> 800,
          cacheReadCostPerToken |-> 50, cacheWriteCostPerToken |-> 0]
    ELSE [inputCostPerToken |-> 300, outputCostPerToken |-> 1500,
          cacheReadCostPerToken |-> 30, cacheWriteCostPerToken |-> 375]

\* The aliases map: alias -> canonical name.
PricingAliases ==
  [a \in {"claude-sonnet-4-5", "sonnet"} |-> "claude-sonnet-4-5-20250929"]

ProviderPrefixes == {"anthropic/", "openai/", "google/"}

\* The names a model field holds: canonical names, aliases and names the
\* registry does not know, bare or behind one provider prefix.
ModelStems ==
  PricingModels \cup DOMAIN PricingAliases
    \cup {"unknown-model-xyz", "totally-unknown-model"}

ModelNames ==
  ModelStems \cup {p \o stem : p \in ProviderPrefixes, stem \in ModelStems}

\* model.replace(/^prefix/, '')
replacePrefix(model, prefix) ==
  IF \E rest \in ModelNames : model = prefix \o rest
    THEN CHOOSE rest \in ModelNames : model = prefix \o rest
    ELSE model

normalizeMut(model) ==
  replacePrefix(replacePrefix(model, "anthropic/"), "openai/")

normalize(model) ==
  replacePrefix(replacePrefix(replacePrefix(model, "anthropic/"),
                              "openai/"),
                "google/")

\* The canonical name whose pricing lookup returns, NULL for null: the
\* direct match first, then the alias.
lookupNormalized(normalized) ==
  IF normalized \in PricingModels THEN normalized
  ELSE IF normalized \in DOMAIN PricingAliases
            /\ PricingAliases[normalized] \in PricingModels
    THEN PricingAliases[normalized]
  ELSE NULL

lookup(model) == lookupNormalized(normalize(model))

lookupFound(model) == lookup(model) # NULL

\* The sum of calculate for the rates p.
costOf(p, input, output, cacheRead, cacheWrite) ==
  input * p.inputCostPerToken + output * p.outputCostPerToken
    + cacheRead * p.cacheReadCostPerToken
    + cacheWrite * p.cacheWriteCostPerToken

calculateMut(model, input, output, cacheRead, cacheWrite) ==
  IF ~lookupFound(model) THEN 0
  ELSE costOf(pricing(lookup(model)), input, output, cacheRead, cacheWrite)

calculate(model, input, output, cacheRead, cacheWrite) ==
  IF ~lookupFound(model) THEN NoNum
  ELSE costOf(pricing(lookup(model)), input, output, cacheRead, cacheWrite)

(***************************************************************************)
(* Store: agents, sessions, events                                         *)
(***************************************************************************)
NoAgent == [exists |-> FALSE, last_seen_at |-> NoTime]

NoSession == [exists |-> FALSE, agent_type |-> NULL, project |-> NULL,
              branch |-> NULL, status |-> "none",
              ended_at |-> NoTime, last_event_at |-> NoTime]

upsertAgent(db, agentType, t) ==
  [db EXCEPT !.agents[agentType] = [exists |-> TRUE, last_seen_at |-> t]]

upsertStatusMut(old) == "active"

\* The ON CONFLICT branch keeps 'ended' and otherwise sets 'active'.
upsertStatus(old) == IF old = "ended" THEN old ELSE "active"

coalesceMut(new, old) == new

\* COALESCE(excluded.x, sessions.x)
coalesce(new, old) == IF new # NULL THEN new ELSE old

upsertSession(db, id, agentType, project, branch, t) ==
  LET old == db.sessions[id]
      p == OrNull(project)
      b == OrNull(branch)
  IN IF ~old.exists
       THEN [db EXCEPT !.sessions[id] =
               [exists |-> TRUE, agent_type |-> agentType, project |-> p,
                branch |-> b, status |-> "active",
                ended_at |-> NoTime, last_event_at |-> t]]
       ELSE [db EXCEPT !.sessions[id] =
               [old EXCEPT !.last_event_at = t,
                           !.status = upsertStatus(old.status),
                           !.project = coalesce(p, old.project),
                           !.branch = coalesce(b, old.branch)]]

idleSessionMut(db, id) ==
  IF db.sessions[id].exists
    THEN [db EXCEPT !.sessions[id].status = "idle"]
    ELSE db

idleSession(db, id) ==
  IF db.sessions[id].exists /\ db.sessions[id].status # "ended"
    THEN [db EXCEPT !.sessions[id].status = "idle"]
    ELSE db

endSession(db, id, t) ==
  IF db.sessions[id].exists
    THEN [db EXCEPT !.sessions[id].status = "ended",
                    !.sessions[id].ended_at = t]
    ELSE db

\* UPDATE ... WHERE id = ? AND status != 'ended' of the import branch.
endImported(db, id, t) ==
  IF db.sessions[id].exists /\ db.sessions[id].status # "ended"
    THEN [db EXCEPT !.sessions[id].status = "ended",
                    !.sessions[id].ended_at =
                       IF db.sessions[id].ended_at # NoTime
                         THEN db.sessions[id].ended_at ELSE t]
    ELSE db

reapIdleMut(s, t) ==
  IF s.exists /\ s.status = "active" /\ s.last_event_at < t
    THEN [s EXCEPT !.status = "idle"] ELSE s

\* First UPDATE of updateIdleSessions: active -> idle.
reapIdle(s, t) ==
  IF s.exists /\ s.status = "active"
       /\ s.last_event_at < t - sessionTimeoutMinutes
    THEN [s EXCEPT !.status = "idle"] ELSE s

\* Second UPDATE of updateIdleSessions: idle -> ended.
reapEnd(s, t) ==
  IF s.exists /\ s.status = "idle"
       /\ s.last_event_at < t - sessionTimeoutMinutes * 2
    THEN [s EXCEPT !.status = "ended", !.ended_at = t] ELSE s

updateIdleSessions(ss, t) ==
  [id \in AllSessionIds |-> reapEnd(reapIdle(ss[id], t), t)]

\* idled.changes: the number of rows the first UPDATE changed.
idledChanges(ss, t) ==
  Cardinality({id \in AllSessionIds : reapIdle(ss[id], t) # ss[id]})

uniqueViolationMut(evs, eventId) == FALSE

\* The UNIQUE constraint on events.event_id.
uniqueViolation(evs, eventId) ==
  eventId # NULL /\ \E i \in 1..Len(evs) : evs[i].event_id = eventId

NoRow == [id |-> 0, event_id |-> NULL, session_id |-> NULL,
          agent_type |-> NULL, event_type |-> NULL, status |-> NULL,
          tokens_in |-> 0, tokens_out |-> 0, branch |-> NULL,
          project |-> NULL, cache_read_tokens |-> 0,
          cache_write_tokens |-> 0, model |-> NULL, cost_usd |-> NoNum,
          client_timestamp |-> NULL,
          source |-> NULL, metadata |-> <<>>, payload_truncated |-> 0]

autoCostMut(event) ==
  IF Truthy(event.model) /\ (event.tokens_in > 0 \/ event.tokens_out > 0)
       /\ event.cost_usd <= 0
    THEN calculate(event.model, event.tokens_in, event.tokens_out,
                   event.cache_read_tokens, event.cache_write_tokens)
    ELSE event.cost_usd

\* Auto-pricing: only when model and tokens are present and no cost given.
autoCost(event) ==
  IF Truthy(event.model) /\ (event.tokens_in > 0 \/ event.tokens_out > 0)
       /\ event.cost_usd = NoNum
    THEN calculate(event.model, event.tokens_in, event.tokens_out,
                   event.cache_read_tokens, event.cache_write_tokens)
    ELSE event.cost_usd

lifecycleMut(db, event, t) ==
  IF event.event_type = "session_end"
    THEN endSession(db, event.session_id, t)
    ELSE db

\* The session_end branch of insertEvent.
lifecycle(db, event, t) ==
  IF event.event_type = "session_end"
    THEN IF event.agent_type = "claude_code"
           THEN idleSession(db, event.session_id)
           ELSE endSession(db, event.session_id, t)
    ELSE db

importLifecycleMut(db, event, t) ==
  IF event.source = "import" /\ event.event_type = "session_end"
    THEN endImported(db, event.session_id, t) ELSE db

\* The import branch of insertEvent.
importLifecycle(db, event, t) ==
  IF event.source = "import" THEN endImported(db, event.session_id, t) ELSE db

\* The values bound to the INSERT INTO events.
insertedRow(id, event, eventId, metadata) ==
  [id |-> id,
   event_id |-> eventId,
   session_id |-> event.session_id,
   agent_type |-> event.agent_type,
   event_type |-> event.event_type,
   status |-> event.status,
   tokens_in |-> event.tokens_in,
   tokens_out |-> event.tokens_out,
   branch |-> OrNull(event.branch),
   project |-> OrNull(event.project),
   cache_read_tokens |-> event.cache_read_tokens,
   cache_write_tokens |-> event.cache_write_tokens,
   model |-> OrNull(event.model),
   cost_usd |-> autoCost(event),
   client_timestamp |-> OrNull(event.client_timestamp),
   source |-> IF Truthy(event.source) THEN event.source ELSE "api",
   metadata |-> metadata.value,
   payload_truncated |-> IF metadata.truncated THEN 1 ELSE 0]

\* insertEvent: outcome is "row" (the persisted row), "null" (duplicate
\* event_id) or "throw" (a store fault on the INSERT INTO events).
insertEvent(db, event, t, fault) ==
  LET d1 == upsertAgent(db, event.agent_type, t)
      d2 == upsertSession(d1, event.session_id, event.agent_type,
                          event.project, event.branch, t)
      d3 == lifecycle(d2, event, t)
      d4 == importLifecycle(d3, event, t)
      eventId == OrNull(event.event_id)
      row == insertedRow(Len(d4.events) + 1, event, eventId,
                         truncateMetadata(event.metadata))
  IN IF fault
       THEN [db |-> d4, outcome |-> "throw", row |-> NoRow]
       ELSE IF uniqueViolation(d4.events, eventId)
         THEN [db |-> d4, outcome |-> "null", row |-> NoRow]
         ELSE [db |-> [d4 EXCEPT !.events = Append(@, row)],
               outcome |-> "row", row |-> row]

(***************************************************************************)
(* SSE broadcaster                                                         *)
(***************************************************************************)
ConnIds == 1..MaxConns

\* A connection that never subscribed. state: none -> live -> removed, or
\* none -> rejected.  sock is the behaviour of res.write on the socket:
\* "ok" (returns true), "full" (returns false) or "broken" (throws).
NoClient == [state |-> "none", agentType |-> NULL, eventType |-> NULL,
             heartbeat |-> FALSE, backpressureCount |-> 0,
             listeners |-> FALSE, writableEnded |-> FALSE,
             destroyed |-> FALSE, sock |-> "ok", drainPending |-> FALSE,
             received |-> <<>>]

Live(cs) == {i \in ConnIds : cs[i].state = "live"}

clientCount(cs) == Cardinality(Live(cs))

atCapacityMut(cs) == clientCount(cs) > maxSseClients

\* The capacity test of addClient.
atCapacity(cs) == clientCount(cs) >= maxSseClients

overBackpressureMut(count) == count > maxBackpressureWrites

\* The threshold test of safeWrite after a write that returned false.
overBackpressure(count) == count >= maxBackpressureWrites

safeWriteMut(c) ==
  IF c.state # "live" THEN [c |-> c, ok |-> FALSE, wrote |-> FALSE]
  ELSE IF c.sock = "broken" THEN [c |-> c, ok |-> FALSE, wrote |-> FALSE]
  ELSE IF c.sock = "full"
    THEN [c |-> [c EXCEPT !.backpressureCount = @ + 1,
                          !.drainPending = TRUE],
          ok |-> ~overBackpressure(c.backpressureCount + 1),
          wrote |-> TRUE]
  ELSE [c |-> [c EXCEPT !.backpressureCount = 0],
        ok |-> TRUE, wrote |-> TRUE]

\* safeWrite: ok is the returned boolean, wrote tells whether res.write
\* accepted the chunk (a write that returns false has still queued it).
safeWrite(c) ==
  IF c.state # "live" THEN [c |-> c, ok |-> FALSE, wrote |-> FALSE]
  ELSE IF c.writableEnded \/ c.destroyed
    THEN [c |-> c, ok |-> FALSE, wrote |-> FALSE]
  ELSE IF c.sock = "broken" THEN [c |-> c, ok |-> FALSE, wrote |-> FALSE]
  ELSE IF c.sock = "full"
    THEN [c |-> [c EXCEPT !.backpressureCount = @ + 1,
                          !.drainPending = TRUE],
          ok |-> ~overBackpressure(c.backpressureCount + 1),
          wrote |-> TRUE]
  ELSE [c |-> [c EXCEPT !.backpressureCount = 0],
        ok |-> TRUE, wrote |-> TRUE]

removeClientNoClear(c) ==
  IF c.state # "live" THEN c
  ELSE [NoClient EXCEPT !.state = "removed",
                        !.heartbeat = c.heartbeat,
                        !.destroyed = c.destroyed,
                        !.writableEnded = IF ~c.writableEnded /\ ~c.destroyed
                                            THEN TRUE ELSE c.writableEnded]

removeClientMut(c) ==
  IF c.state # "live" THEN c ELSE [c EXCEPT !.heartbeat = FALSE]

\* removeClient deletes the client object from the set: of a removed client
\* only the connection (writableEnded, destroyed) is kept.
removeClient(c) ==
  IF c.state # "live" THEN c
  ELSE [NoClient EXCEPT !.state = "removed",
                        !.destroyed = c.destroyed,
                        !.writableEnded = IF ~c.writableEnded /\ ~c.destroyed
                                            THEN TRUE ELSE c.writableEnded]

filterPassesMut(c, payload) ==
  ~(/\ Truthy(c.agentType) /\ payload.agent_type # c.agentType
    /\ Truthy(c.eventType) /\ payload.event_type # c.eventType)

\* The two filter tests of broadcast; payload fields that are undefined
\* are NULL here.
filterPasses(c, payload) ==
  /\ ~(Truthy(c.agentType) /\ payload.agent_type # c.agentType)
  /\ ~(Truthy(c.eventType) /\ payload.event_type # c.eventType)

writeOrRemoveMut(c, type, payload) ==
  LET w == safeWrite(c)
      c2 == IF w.wrote /\ type = "event"
              THEN [w.c EXCEPT !.received = <<payload.id>> \o @]
              ELSE w.c
  IN IF w.ok THEN c2 ELSE removeClient(c2)

\* What safeWrite followed by removeClient-on-false does to one client.
writeOrRemove(c, type, payload) ==
  LET w == safeWrite(c)
      c2 == IF w.wrote /\ type = "event"
              THEN [w.c EXCEPT !.received = Append(@, payload.id)]
              ELSE w.c
  IN IF w.ok THEN c2 ELSE removeClient(c2)

broadcast(cs, type, payload) ==
  [i \in ConnIds |->
     IF cs[i].state = "live" /\ filterPasses(cs[i], payload)
       THEN writeOrRemove(cs[i], type, payload)
       ELSE cs[i]]

\* The clients on which broadcast called res.write with the message.
writtenTo(cs, payload) ==
  {i \in Live(cs) : filterPasses(cs[i], payload) /\ safeWrite(cs[i]).wrote}

NoPayload == [id |-> 0, agent_type |-> NULL, event_type |-> NULL]

rowPayload(row) ==
  [id |-> row.id, agent_type |-> row.agent_type, event_type |-> row.event_type]

(***************************************************************************)
(* OTLP metrics: cumulative-to-delta conversion                            *)
(***************************************************************************)
CodexServices == {"codex", "codex_cli_rs"}
ClaudeServices == {"claude_code", "claude-code"}

\* svc.includes('codex') / svc.includes('claude') on the service names of
\* the model; any other name passes through, an absent one is 'unknown'.
resolveServiceName(svc) ==
  IF svc \in CodexServices THEN "codex"
  ELSE IF svc \in ClaudeServices THEN "claude_code"
  ELSE IF Truthy(svc) THEN svc ELSE "unknown"

\* getAttr(...'gen_ai.session.id') ?? getAttr(...'session.id') ?? 'unknown'
metricSessionId(session) == IF session # NULL THEN session ELSE UnknownSession

\* x ?? ''
OrEmpty(x) == IF x = NULL THEN "" ELSE x

\* The template string that builds the cursor key.
cacheKey(sessionId, agentType, metricName, model, tokenType) ==
  sessionId \o "|" \o agentType \o "|" \o metricName \o "|"
    \o OrEmpty(model) \o "|" \o OrEmpty(tokenType)

NoValue == -1

\* cumulativeState.get(key); NoValue stands for undefined.
lastValueOf(cs, key) == IF key \in DOMAIN cs THEN cs[key] ELSE NoValue

setCursorMut(cs, key, v) ==
  [k \in DOMAIN cs \cup {key} |->
     IF k # key THEN cs[k]
     ELSE IF key \in DOMAIN cs /\ cs[key] > v THEN cs[key] ELSE v]

setCursor(cs, key, v) ==
  [k \in DOMAIN cs \cup {key} |-> IF k = key THEN v ELSE cs[k]]

deltaOfMut(lastValue, currentValue) == currentValue

deltaOf(lastValue, currentValue) ==
  IF lastValue = NoValue THEN currentValue
  ELSE IF currentValue - lastValue > 0 THEN currentValue - lastValue ELSE 0

computeDelta(cs, key, currentValue) ==
  [state |-> setCursor(cs, key, currentValue),
   delta |-> deltaOf(lastValueOf(cs, key), currentValue)]

TOKEN_METRICS == {"claude_code.token.usage", "codex_cli_rs.token.usage",
                  "gen_ai.client.token.usage"}
COST_METRICS == {"claude_code.cost.usage", "codex_cli_rs.cost.usage",
                 "gen_ai.client.cost.usage"}

\* The ParsedMetricDelta built for one data point with a positive delta.
metricEntry(sessionId, agentType, metricName, model, tokenType, delta) ==
  LET base == [session_id |-> sessionId, agent_type |-> agentType,
               model |-> model, tokens_in_delta |-> 0,
               tokens_out_delta |-> 0, cache_read_delta |-> 0,
               cache_write_delta |-> 0, cost_usd_delta |-> 0]
  IN IF metricName \in TOKEN_METRICS
       THEN CASE tokenType = "input" -> [base EXCEPT !.tokens_in_delta = delta]
              [] tokenType = "output" ->
                   [base EXCEPT !.tokens_out_delta = delta]
              [] tokenType \in {"cacheRead", "cache_read"} ->
                   [base EXCEPT !.cache_read_delta = delta]
              [] tokenType \in {"cacheCreation", "cache_creation",
                                "cache_write"} ->
                   [base EXCEPT !.cache_write_delta = delta]
              [] OTHER -> [base EXCEPT !.tokens_in_delta = delta]
       ELSE [base EXCEPT !.cost_usd_delta = delta]

\* One iteration of the data point loop of parseOtelMetrics; a data point
\* of the model carries the attributes of its resource and its metric.
parsePoint(st, dp) ==
  LET agentType == resolveServiceName(dp.service)
      sessionId == metricSessionId(dp.session)
      key == cacheKey(sessionId, agentType, dp.metric, dp.model, dp.tokenType)
      cd == computeDelta(st.state, key, dp.value)
      delta == IF dp.cumulative THEN cd.delta ELSE dp.value
      state2 == IF dp.cumulative THEN cd.state ELSE st.state
  IN IF delta <= 0 THEN [st EXCEPT !.state = state2]
     ELSE IF dp.metric \in TOKEN_METRICS \cup COST_METRICS
       THEN [state |-> state2,
             results |-> Append(st.results,
                           metricEntry(sessionId, agentType, dp.metric,
                                       dp.model, dp.tokenType, delta))]
       ELSE [st EXCEPT !.state = state2]

RECURSIVE parseLoopMut(_, _, _)
parseLoopMut(st, points, i) ==
  IF i > Len(points) THEN st
  ELSE IF i = Len(points) THEN parsePoint(st, points[i])
  ELSE LET a == parsePoint(st, points[i])
           b == parsePoint([state |-> st.state, results |-> a.results],
                           points[i + 1])
       IN parseLoopMut([state |-> [k \in DOMAIN a.state \cup DOMAIN b.state |->
                                     IF k \in DOMAIN b.state
                                          /\ (k \notin DOMAIN st.state
                                                \/ b.state[k] # st.state[k])
                                       THEN b.state[k] ELSE a.state[k]],
                        results |-> b.results],
                       points, i + 2)

RECURSIVE parseLoop(_, _, _)
parseLoop(st, points, i) ==
  IF i > Len(points) THEN st
  ELSE parseLoop(parsePoint(st, points[i]), points, i + 1)

parseOtelMetrics(cs, points) ==
  parseLoop([state |-> cs, results |-> <<>>], points, 1)

\* The synthetic llm_response event of the metrics handler.
syntheticEvent(delta) ==
  [event_id |-> NULL, session_id |-> delta.session_id,
   agent_type |-> delta.agent_type, event_type |-> "llm_response",
   status |-> "success", tokens_in |-> delta.tokens_in_delta,
   tokens_out |-> delta.tokens_out_delta,
   cache_read_tokens |-> delta.cache_read_delta,
   cache_write_tokens |-> delta.cache_write_delta,
   project |-> NULL, branch |-> NULL, model |-> delta.model,
   cost_usd |-> IF delta.cost_usd_delta > 0 THEN delta.cost_usd_delta
                ELSE NoNum,
   client_timestamp |-> NULL, source |-> "otel",
   metadata |-> [kind |-> "object", text |-> <<>>,
                 entries |->
                   <<[key |-> "_synthetic", val |-> ascii(4),
                      quoted |-> FALSE],
                     [key |-> "_source", val |-> ascii(11),
                      quoted |-> TRUE]>>]]

hasTokensOrCost(delta) ==
  \/ delta.tokens_in_delta > 0 \/ delta.tokens_out_delta > 0
  \/ delta.cache_read_delta > 0 \/ delta.cache_write_delta > 0
  \/ delta.cost_usd_delta > 0

(***************************************************************************)
(* OTLP logs                                                               *)
(***************************************************************************)
CLAUDE_EVENT_MAP ==
  [n \in {"claude_code.tool_result", "claude_code.tool_use",
          "claude_code.api_request", "claude_code.api_response",
          "claude_code.session_start", "claude_code.session_end",
          "claude_code.file_change", "claude_code.git_commit",
          "claude_code.plan_step", "claude_code.error",
          "claude_code.response"} |->
     CASE n \in {"claude_code.tool_result", "claude_code.tool_use"} ->
            "tool_use"
       [] n = "claude_code.api_request" -> "llm_request"
       [] n = "claude_code.api_response" -> "llm_response"
       [] n = "claude_code.session_start" -> "session_start"
       [] n = "claude_code.session_end" -> "session_end"
       [] n = "claude_code.file_change" -> "file_change"
       [] n = "claude_code.git_commit" -> "git_commit"
       [] n = "claude_code.plan_step" -> "plan_step"
       [] n = "claude_code.error" -> "error"
       [] n = "claude_code.response" -> "response"]

CODEX_EVENT_MAP ==
  [n \in {"codex.tool_result", "codex.tool_use", "codex.api_request",
          "codex.api_response", "codex.session_start", "codex.session_end",
          "codex.file_change", "codex.error", "codex.response"} |->
     CASE n \in {"codex.tool_result", "codex.tool_use"} -> "tool_use"
       [] n = "codex.api_request" -> "llm_request"
       [] n = "codex.api_response" -> "llm_response"
       [] n = "codex.session_start" -> "session_start"
       [] n = "codex.session_end" -> "session_end"
       [] n = "codex.file_change" -> "file_change"
       [] n = "codex.error" -> "error"
       [] n = "codex.response" -> "response"]

EVENT_TYPE_SUFFIXES ==
  [x \in {"tool_result", "tool_use", "api_request", "api_response",
          "session_start", "session_end", "file_change", "git_commit",
          "plan_step", "error", "response"} |->
     CASE x \in {"tool_result", "tool_use"} -> "tool_use"
       [] x = "api_request" -> "llm_request"
       [] x = "api_response" -> "llm_response"
       [] OTHER -> x]

\* eventName.split('.').pop() on the event names of the model.
lastSegment(eventName) ==
  CASE eventName = "claude_code.tool_result" -> "tool_result"
    [] eventName = "claude_code.response" -> "response"
    [] eventName = "codex.session_end" -> "session_end"
    [] eventName = "app.git_commit" -> "git_commit"
    [] OTHER -> eventName

resolveEventType(eventName, severityText, agentType) ==
  LET map == IF agentType = "codex" THEN CODEX_EVENT_MAP
             ELSE CLAUDE_EVENT_MAP
      suffix == lastSegment(eventName)
  IN IF Truthy(eventName) /\ eventName \in DOMAIN map THEN map[eventName]
     ELSE IF Truthy(eventName) /\ suffix \in DOMAIN EVENT_TYPE_SUFFIXES
       THEN EVENT_TYPE_SUFFIXES[suffix]
     ELSE IF severityText = "ERROR" THEN "error"
     ELSE "response"

\* a ?? b
Coalesce(a, b) == IF a # NULL THEN a ELSE b

\* The session id of a log record: log attribute gen_ai.session.id, then
\* resource attributes session.id and gen_ai.session.id, then the body.
logSessionIdMut(lr) ==
  Coalesce(lr.attrSession, Coalesce(lr.resSession, lr.resGenAiSession))

logSessionId(lr) ==
  Coalesce(lr.attrSession,
           Coalesce(lr.resSession,
                    Coalesce(lr.resGenAiSession, lr.bodySession)))

\* parseLogRecord: ok is FALSE for the null returned when no session id can
\* be resolved.  The records of the model carry no token, cost, model,
\* project or branch attributes.
parseLogRecord(lr) ==
  LET agentType == resolveServiceName(lr.service)
      sessionId == logSessionId(lr)
      eventType == resolveEventType(lr.eventName, lr.severityText, agentType)
  IN IF ~Truthy(sessionId) THEN [ok |-> FALSE]
     ELSE [ok |-> TRUE,
           event |->
             [event_id |-> NULL, session_id |-> sessionId,
              agent_type |-> agentType, event_type |-> eventType,
              status |-> IF eventType = "error" THEN "error" ELSE "success",
              tokens_in |-> 0, tokens_out |-> 0, cache_read_tokens |-> 0,
              cache_write_tokens |-> 0, project |-> NULL, branch |-> NULL,
              model |-> NULL, cost_usd |-> NoNum,
              client_timestamp |-> NULL, source |-> "otel",
              metadata |-> EmptyObject]]

RECURSIVE parseLogLoop(_, _, _)
parseLogLoop(acc, records, i) ==
  IF i > Len(records) THEN acc
  ELSE LET r == parseLogRecord(records[i])
       IN parseLogLoop(IF r.ok THEN Append(acc, r.event) ELSE acc,
                       records, i + 1)

parseOtelLogs(records) == parseLogLoop(<<>>, records, 1)

(***************************************************************************)
(* The ingest loop shared by the handlers: items are results of the Event  *)
(* Contract; faultAt is the position whose INSERT hits a store fault       *)
(* (0 for none); doBroadcast tells whether the caller publishes each row.  *)
(***************************************************************************)
publishesMut(outcome) == outcome # "throw"

\* The test "if (event)" / "if (row)" of the handlers on insertEvent's
\* result.
publishes(outcome) == outcome = "row"

rejectedIndexMut(i) == i

\* The loop variable of the batch handler: positions are zero-based, the
\* items of a sequence are numbered from 1.
rejectedIndex(i) == i - 1

ingestItemMut(st, item, i, t, faultAt, doBroadcast) ==
  IF st.threw THEN st
  ELSE IF ~item.ok THEN [st EXCEPT !.rejected = Append(@, rejectedIndex(i))]
  ELSE LET r == insertEvent(st.db, item.event, t, faultAt = i)
           st2 == [st EXCEPT
                     !.db = r.db,
                     !.ids = IF r.outcome = "row" THEN Append(@, r.row.id)
                             ELSE @,
                     !.duplicates = IF r.outcome = "row" THEN @ ELSE @ + 1]
       IN IF r.outcome = "throw" THEN [st EXCEPT !.db = r.db, !.threw = TRUE]
          ELSE IF doBroadcast /\ publishes(r.outcome)
            THEN [st2 EXCEPT
                    !.published = Append(@, r.row.id),
                    !.delivered = writtenTo(st.clients, rowPayload(r.row)),
                    !.clients = broadcast(@, "event", rowPayload(r.row)),
                    !.threw = \E c \in Live(st.clients) :
                                ~safeWrite(st.clients[c]).ok]
            ELSE st2

ingestItem(st, item, i, t, faultAt, doBroadcast) ==
  IF st.threw THEN st
  ELSE IF ~item.ok THEN [st EXCEPT !.rejected = Append(@, rejectedIndex(i))]
  ELSE LET r == insertEvent(st.db, item.event, t, faultAt = i)
           st2 == [st EXCEPT
                     !.db = r.db,
                     !.ids = IF r.outcome = "row" THEN Append(@, r.row.id)
                             ELSE @,
                     !.duplicates = IF r.outcome = "row" THEN @ ELSE @ + 1]
       IN IF r.outcome = "throw" THEN [st EXCEPT !.db = r.db, !.threw = TRUE]
          ELSE IF doBroadcast /\ publishes(r.outcome)
            THEN [st2 EXCEPT
                    !.published = Append(@, r.row.id),
                    !.delivered = writtenTo(st.clients, rowPayload(r.row)),
                    !.clients = broadcast(@, "event", rowPayload(r.row))]
            ELSE st2

RECURSIVE ingestLoop(_, _, _, _, _, _)
ingestLoop(st, items, i, t, faultAt, doBroadcast) ==
  IF i > Len(items) THEN st
  ELSE ingestLoop(ingestItem(st, items[i], i, t, faultAt, doBroadcast),
                  items, i + 1, t, faultAt, doBroadcast)

Valid(event) == [ok |-> TRUE, event |-> event]

(***************************************************************************)
(* Inputs                                                                  *)
(***************************************************************************)
BaseRaw == [session_id |-> "s1", agent_type |-> "claude_code",
            event_type |-> "tool_use", status |-> NULL, event_id |-> NULL,
            project |-> NULL, branch |-> NULL, model |-> NULL,
            tokens_in |-> NoNum, tokens_out |-> NoNum, cost_usd |-> NoNum,
            client_timestamp |-> NULL, source |-> NULL,
            metadata |-> NoMetadata]

\* Records that pass the Event Contract.
ValidRaw ==
  {BaseRaw,
   [BaseRaw EXCEPT !.event_type = "session_end"],
   [BaseRaw EXCEPT !.event_type = "session_end", !.agent_type = "codex"],
   [BaseRaw EXCEPT !.agent_type = "codex", !.source = "import"],
   [BaseRaw EXCEPT !.event_id = "e1", !.project = "p1"],
   [BaseRaw EXCEPT !.event_id = "e1", !.event_type = "session_end",
                   !.agent_type = "codex"],
   [BaseRaw EXCEPT !.event_id = "e1", !.source = "import"],
   [BaseRaw EXCEPT !.source = "cli"]}

\* Records the Event Contract rejects.
InvalidRaw ==
  {[BaseRaw EXCEPT !.status = "bad"],
   [BaseRaw EXCEPT !.event_type = "response", !.session_id = " "]}

RawEvents == ValidRaw \cup InvalidRaw

\* Single submits made between batches.
BatchRaw ==
  {BaseRaw,
   [BaseRaw EXCEPT !.event_id = "e1"],
   [BaseRaw EXCEPT !.event_id = "e1", !.session_id = "s2",
                   !.agent_type = "codex", !.event_type = "session_end"],
   [BaseRaw EXCEPT !.status = "bad"],
   [BaseRaw EXCEPT !.session_id = ""]}

\* Items of a batch: a valid item without event_id, a valid item with one,
\* an invalid item.
BatchItems ==
  {BaseRaw,
   [BaseRaw EXCEPT !.event_id = "e1", !.session_id = "s2",
                   !.agent_type = "codex", !.event_type = "session_end"],
   [BaseRaw EXCEPT !.status = "bad"]}

\* Records submitted while subscribers are connected.
StreamRaw ==
  {[BaseRaw EXCEPT !.event_id = "e1"],
   [BaseRaw EXCEPT !.agent_type = "codex", !.event_type = "session_end"]}

BaseLog == [service |-> "claude_code", attrSession |-> NULL,
            resSession |-> NULL, resGenAiSession |-> "sA",
            bodySession |-> NULL, eventName |-> "claude_code.tool_result",
            severityText |-> NULL]

\* Log records: with and without a resolvable session id, with mapped,
\* suffix-matched, unmapped and absent event names.
LogRecords ==
  {BaseLog,
   [BaseLog EXCEPT !.resGenAiSession = NULL],
   [BaseLog EXCEPT !.resGenAiSession = NULL, !.bodySession = "sA|b"],
   [BaseLog EXCEPT !.resGenAiSession = "", !.eventName = "app.git_commit"],
   [BaseLog EXCEPT !.eventName = "claude_code.response"],
   [BaseLog EXCEPT !.eventName = NULL, !.severityText = "ERROR"],
   [BaseLog EXCEPT !.service = "codex", !.eventName = "codex.session_end",
                   !.attrSession = "sA|b"]}

\* OTLP log payloads of one record, and of two records that start with an
\* attributed or with an unattributed record.
LogPayloads ==
  {<<a>> : a \in LogRecords}
  \cup {<<a, b>> : a \in {BaseLog, [BaseLog EXCEPT !.resGenAiSession = NULL]},
                   b \in LogRecords}

\* Batches submitted while subscribers are connected.
StreamBatches == {<<a, b>> : a, b \in StreamRaw}

\* Events parseClaudeCodeFile builds from the lines of a session file.
importedEvent(sessionId, eventType, lineId) ==
  [event_id |-> "import-cc-" \o lineId, session_id |-> sessionId,
   agent_type |-> "claude_code", event_type |-> eventType,
   status |-> "success", tokens_in |-> 0, tokens_out |-> 0,
   cache_read_tokens |-> 0, cache_write_tokens |-> 0,
   project |-> NULL, branch |-> NULL, model |-> NULL, cost_usd |-> NoNum,
   client_timestamp |-> NULL, source |-> "import",
   metadata |-> EmptyObject]

\* The lines of the session file, each with the day of its timestamp; the
\* file on disk holds the first disk lines.
FileLines ==
  <<[id |-> "a", type |-> "tool_use", day |-> 1],
    [id |-> "b", type |-> "user_prompt", day |-> 2]>>

\* crypto.createHash('sha256') of the first n lines.
hashFile(n) == IF n = 1 THEN "9f3a" ELSE "c41e"

NoOptions == [from |-> NoTime, to |-> NoTime, dryRun |-> FALSE,
              force |-> FALSE]

\* Options of the import command.
ImportOptions ==
  [from : {NoTime, 2}, to : {NoTime, 1}, dryRun : BOOLEAN, force : BOOLEAN]

SeqsUpTo(S, n) == UNION {[1..k -> S] : k \in 0..n}

MetricValues == {0, 1000, 1500}

\* The resources (session id, service name) that report metrics.
MetricResources ==
  {<<"sA", "svc">>, <<"sA|b", "svc">>, <<"sA", "b|svc">>}

BasePoint == [session |-> "sA", service |-> "svc",
              metric |-> "claude_code.token.usage", cumulative |-> TRUE,
              model |-> "claude-sonnet-4-5-20250929", tokenType |-> "input",
              value |-> 0]

\* Cumulative reports of every resource, and delta-temporality reports.
DataPoints ==
  {[BasePoint EXCEPT !.session = r[1], !.service = r[2], !.value = v]
     : r \in MetricResources, v \in MetricValues}
  \cup {[BasePoint EXCEPT !.cumulative = FALSE, !.value = v] : v \in {0, 500}}
  \cup {[BasePoint EXCEPT !.session = NULL, !.value = 1000]}

\* Cumulative reports of one session, rising and falling, and of another.
CursorPoints ==
  {[BasePoint EXCEPT !.value = 500], [BasePoint EXCEPT !.value = 1500],
   [BasePoint EXCEPT !.session = "sA|b", !.value = 1000]}

\* Metric requests that carry one report, or two reports in a row.
CursorRequests ==
  {<<a>> : a \in CursorPoints} \cup {<<a, b>> : a, b \in CursorPoints}

\* The delta-temporality report sent while subscribers are connected.
FeedPoint == [BasePoint EXCEPT !.cumulative = FALSE, !.value = 500]

\* Filters of the subscribers that producers publish to.
Filters == {[agentType |-> NULL, eventType |-> NULL],
            [agentType |-> "codex", eventType |-> "session_end"]}

Str(text) == [kind |-> "string", text |-> text, entries |-> <<>>]

Arr(text) == [kind |-> "array", text |-> text, entries |-> <<>>]

Obj(entries) == [kind |-> "object", text |-> <<>>, entries |-> entries]

Entry(key, val) == [key |-> key, val |-> val, quoted |-> TRUE]

\* Metadata payloads: absent, under the cap, exactly at the cap, one byte
\* over it, with and without priority keys, with multi-byte characters, and
\* with a priority value that makes the summary itself exceed the cap.
MetaValues ==
  {NoMetadata,
   Obj(<<Entry("command", ascii(9))>>),
   Obj(<<Entry("command", ascii(9)), Entry("blob", chars(4, 1200))>>),
   Obj(<<Entry("blob", ascii(maxBytes - 11))>>),
   Obj(<<Entry("blob", ascii(maxBytes - 10))>>),
   Obj(<<Entry("command", chars(4, 300))>>),
   Str(ascii(maxBytes)),
   Str(chars(3, 342)),
   Str(cat(ascii(maxBytes - 2), chars(4, 1))),
   Arr(ascii(5)),
   Arr(chars(2, 600))}

\* Records with and without a model, tokens and a caller-supplied cost
\* (absent, zero, 5 USD, negative).
CostRaw ==
  {[BaseRaw EXCEPT !.event_type = "llm_request", !.model = mo,
                   !.tokens_in = t[1], !.tokens_out = t[2], !.cost_usd = c]
     : mo \in {NULL, "claude-sonnet-4-5-20250929", "totally-unknown-model"},
       t \in {<<NoNum, NoNum>>, <<0, 0>>, <<1000000, 100000>>},
       c \in {NoNum, 0, 500000000}}
  \cup {[BaseRaw EXCEPT !.cost_usd = -2]}

\* Token-bearing records under every model name, none with a cost.
PricingRaw ==
  {[BaseRaw EXCEPT !.event_type = "llm_request", !.model = name,
                   !.tokens_in = 1000000, !.tokens_out = 100000]
     : name \in ModelNames}

\* Events of both agent types, live and imported, that end a session or
\* do not.
LifecycleRaw ==
  {[BaseRaw EXCEPT !.event_type = ty, !.agent_type = at, !.source = src]
     : ty \in {"tool_use", "session_end"}, at \in {"claude_code", "codex"},
       src \in {NULL, "import"}}

\* Events that carry a project and a branch, or leave them out or blank.
ProjectRaw ==
  {[BaseRaw EXCEPT !.project = pr, !.branch = br]
     : pr \in {NULL, " ", "p1", "p2"}, br \in {NULL, "b1", "b2"}}
  \cup {[BaseRaw EXCEPT !.event_id = "e1", !.project = pr]
         : pr \in {"p1", "p2"}}

\* Records in which any combination of fields breaks a rule of the
\* Event Contract (the test's record among them).
ContractRaw ==
  {[BaseRaw EXCEPT !.session_id = sid, !.event_type = ty, !.status = st,
                   !.tokens_in = ti, !.client_timestamp = ts]
     : sid \in {"s1", " "}, ty \in {"tool_use", "something_else"},
       st \in {NULL, "ok"}, ti \in {NoNum, -2},
       ts \in {NULL, "not-a-date"}}
  \cup {[BaseRaw EXCEPT !.session_id = NULL],
        [BaseRaw EXCEPT !.client_timestamp = "2026-01-02T04:04:05+01:00"]}

\* Content-Type headers of OTLP exporters.
ContentTypes ==
  {"application/json", "application/x-protobuf", "application/protobuf",
   "application/x-protobuf; charset=utf-8"}

\* Records that differ in their metadata only.
MetaRaw == {[BaseRaw EXCEPT !.metadata = md] : md \in MetaValues}

\* Records submitted between the passes of the session timeout checker.
ReaperRaw ==
  {BaseRaw, [BaseRaw EXCEPT !.event_type = "session_end"]}

\* A subscriber of GET /api/stream without query parameters.
NoFilter == [agentType |-> NULL, eventType |-> NULL]

\* Every kind of filter a subscriber can set.
SubFilters == [agentType : {NULL, "codex"}, eventType : {NULL, "session_end"}]

\* Events that differ in agent type and event type.
FilterRaw ==
  {BaseRaw,
   [BaseRaw EXCEPT !.agent_type = "codex"],
   [BaseRaw EXCEPT !.agent_type = "codex", !.event_type = "session_end"]}

\* Submits of one session, with and without an event_id.
FaultyRaw == {[BaseRaw EXCEPT !.event_id = "e1"], BaseRaw}

\* Filters of the subscribers of the connection-management specification.
StreamFilters == [agentType : {NULL, "codex"}, eventType : {NULL}]

(***************************************************************************)
(* State                                                                   *)
(***************************************************************************)
NoResp == [status |-> 0, received |-> 0, ids |-> <<>>, duplicates |-> 0,
           rejected |-> <<>>, details |-> {}]

DB == [agents |-> agents, sessions |-> sessions, events |-> events]

Init ==
  /\ now = 0
  /\ agents = [a \in AllAgentTypes |-> NoAgent]
  /\ sessions = [id \in AllSessionIds |-> NoSession]
  /\ events = <<>>
  /\ published = <<>>
  /\ cumulativeState = <<>>
  /\ clients = [i \in ConnIds |-> NoClient]
  /\ conns = 0
  /\ delivered = {}
  /\ resp = NoResp
  /\ process = [sessionChecker |-> TRUE, autoImportTimer |-> TRUE,
                statsInterval |-> TRUE, listening |-> TRUE,
                exited |-> FALSE]
  /\ import_state = NULL
  /\ disk = 1

\* The state an ingest handler starts its loop in.
loopStart ==
  [db |-> DB, clients |-> clients, published |-> published,
   delivered |-> {}, ids |-> <<>>, duplicates |-> 0, rejected |-> <<>>,
   threw |-> FALSE]

\* Writes back what an ingest loop did to the store and the broadcaster.
commit(st) ==
  /\ Len(st.db.events) <= MaxEvents
  /\ agents' = st.db.agents
  /\ sessions' = st.db.sessions
  /\ events' = st.db.events
  /\ clients' = st.clients
  /\ published' = st.published
  /\ delivered' = st.delivered

(***************************************************************************)
(* HTTP handlers                                                           *)
(***************************************************************************)
\* POST /api/events
PostEvent(raw, fault) ==
  LET parsed == normalizeIngestEvent(raw)
      st == ingestLoop(loopStart, <<parsed>>, 1, now,
                       IF fault THEN 1 ELSE 0, TRUE)
  IN /\ process.listening
     /\ commit(st)
     /\ resp' = IF ~parsed.ok
                  THEN [NoResp EXCEPT !.status = 400,
                                      !.details = parsed.errors]
                ELSE IF st.threw THEN [NoResp EXCEPT !.status = 500]
                ELSE IF st.ids = <<>>
                  THEN [NoResp EXCEPT !.status = 200, !.duplicates = 1]
                ELSE [NoResp EXCEPT !.status = 201, !.received = 1,
                                    !.ids = st.ids]
     /\ UNCHANGED <<process, import_state, disk>>
     /\ UNCHANGED <<now, cumulativeState, conns>>

\* POST /api/events/batch
PostBatch(items, faultAt) ==
  LET parsed == [i \in 1..Len(items) |-> normalizeIngestEvent(items[i])]
      st == ingestLoop(loopStart, parsed, 1, now, faultAt, TRUE)
  IN /\ process.listening
     /\ commit(st)
     /\ resp' = IF st.threw THEN [NoResp EXCEPT !.status = 500]
                ELSE [status |-> 201, received |-> Len(st.ids),
                      ids |-> st.ids, duplicates |-> st.duplicates,
                      rejected |-> st.rejected]
     /\ UNCHANGED <<process, import_state, disk>>
     /\ UNCHANGED <<now, cumulativeState, conns>>

\* POST /api/otel/v1/logs
PostOtelLogs(records) ==
  LET parsed == parseOtelLogs(records)
      items == [i \in 1..Len(parsed) |-> Valid(parsed[i])]
      st == ingestLoop(loopStart, items, 1, now, 0, TRUE)
  IN /\ process.listening
     /\ commit(st)
     /\ resp' = [NoResp EXCEPT !.status = 200, !.ids = st.ids]
     /\ UNCHANGED <<process, import_state, disk>>
     /\ UNCHANGED <<now, cumulativeState, conns>>

\* POST /api/otel/v1/metrics
PostOtelMetrics(points, faultAt) ==
  LET parsed == parseOtelMetrics(cumulativeState, points)
      deltas == SelectSeq(parsed.results, hasTokensOrCost)
      items == [i \in 1..Len(deltas) |-> Valid(syntheticEvent(deltas[i]))]
      st == ingestLoop(loopStart, items, 1, now, faultAt, TRUE)
  IN /\ process.listening
     /\ commit(st)
     /\ cumulativeState' = parsed.state
     /\ resp' = IF st.threw THEN [NoResp EXCEPT !.status = 500]
                ELSE [NoResp EXCEPT !.status = 200, !.ids = st.ids]
     /\ UNCHANGED <<process, import_state, disk>>
     /\ UNCHANGED <<now, conns>>

\* ct.includes(needle) on the Content-Type headers of the model.
includes(ct, needle) ==
  \E pre \in {"", "multipart/mixed, "}, post \in {"", "; charset=utf-8"} :
    ct = pre \o needle \o post

requireJsonMut(ct) == ~includes(ct, "application/x-protobuf")

\* The Content-Type guard of the OTLP endpoints.
requireJson(ct) ==
  ~(\/ includes(ct, "application/x-protobuf")
    \/ includes(ct, "application/protobuf"))

\* res.status(415).json(...) and return.
Unsupported ==
  /\ process.listening
  /\ resp' = [NoResp EXCEPT !.status = 415]
  /\ UNCHANGED <<process, import_state, disk>>
  /\ UNCHANGED <<now, agents, sessions, events, published, cumulativeState,
                 clients, conns, delivered>>

\* POST /api/otel/v1/logs with its Content-Type header.
OtelLogs(ct, records) ==
  IF requireJson(ct) THEN PostOtelLogs(records) ELSE Unsupported

\* POST /api/otel/v1/metrics with its Content-Type header.
OtelMetrics(ct, points) ==
  IF requireJson(ct) THEN PostOtelMetrics(points, 0) ELSE Unsupported

\* POST /api/otel/v1/traces: acknowledged, not processed.
OtelTraces(ct) ==
  IF requireJson(ct)
    THEN /\ process.listening
         /\ resp' = [NoResp EXCEPT !.status = 200]
         /\ UNCHANGED <<process, import_state, disk>>
         /\ UNCHANGED <<now, agents, sessions, events, published,
                        cumulativeState, clients, conns, delivered>>
  ELSE Unsupported

(***************************************************************************)
(* Import pipeline                                                         *)
(***************************************************************************)
\* The date filter of parseClaudeCodeFile.
inScope(line, options) ==
  /\ ~(options.from # NoTime /\ line.day < options.from)
  /\ ~(options.to # NoTime /\ line.day > options.to)

parseClaudeCodeFile(lines, options) ==
  LET kept == SelectSeq(lines, LAMBDA line : inScope(line, options))
  IN [i \in 1..Len(kept) |->
        Valid(importedEvent("s1", kept[i].type, kept[i].id))]

importedBy(st) == [db |-> st.db, imported |-> Len(st.ids)]

\* importEvents: a dry run stores nothing and reports every event.
importEvents(db, parsed, dryRun, t) ==
  IF dryRun THEN [db |-> db, imported |-> Len(parsed)]
  ELSE importedBy(ingestLoop([loopStart EXCEPT !.db = db], parsed, 1, t, 0,
                             FALSE))

isDateScoped(options) == options.from # NoTime \/ options.to # NoTime

recordsStateMut(options, found) == ~options.dryRun /\ found > 0

\* Whether processFile calls setImportState.
recordsState(options, found) ==
  ~options.dryRun /\ ~isDateScoped(options) /\ found > 0

skippedUnchanged(state, n, options) ==
  ~options.force /\ state # NULL /\ state = hashFile(n)

fileResult(state, n, options, found, res) ==
  [db |-> res.db,
   state |-> IF recordsState(options, found) THEN hashFile(n) ELSE state,
   imported |-> res.imported, skipped |-> FALSE]

processParsed(db, state, n, options, t, parsed) ==
  fileResult(state, n, options, Len(parsed),
             importEvents(db, parsed, options.dryRun, t))

processFile(db, state, n, options, t) ==
  IF skippedUnchanged(state, n, options)
    THEN [db |-> db, state |-> state, imported |-> 0, skipped |-> TRUE]
  ELSE processParsed(db, state, n, options, t,
                     parseClaudeCodeFile(SubSeq(FileLines, 1, n), options))

\* runImport over the session file of the model: what it stores, and the
\* import state it leaves.
runImport(options) ==
  processFile([agents |-> agents, sessions |-> sessions, events |-> events],
              import_state, disk, options, now)

\* Writes back what an import run did to the store.
persisted(result) ==
  /\ Len(result.db.events) <= MaxEvents
  /\ agents' = result.db.agents
  /\ sessions' = result.db.sessions
  /\ events' = result.db.events
  /\ import_state' = result.state

\* The import command: runImport with the options of the command line.
Import(options) ==
  /\ persisted(runImport(options))
  /\ UNCHANGED <<now, published, cumulativeState, clients, conns, delivered,
                 resp, process, disk>>

\* What autoImportAll does with the result of runImport.
announced(result) ==
  /\ persisted(result)
  /\ clients' = IF result.imported > 0 /\ clientCount(clients) > 0
                  THEN broadcast(clients, "session_update", NoPayload)
                ELSE clients
  /\ delivered' = IF result.imported > 0 /\ clientCount(clients) > 0
                    THEN writtenTo(clients, NoPayload)
                  ELSE {}

\* autoImportAll: runImport stores the events of the changed files through
\* importEvents, which publishes no row; one aggregate session_update is
\* broadcast when something was imported and a subscriber is connected.
AutoImport ==
  /\ process.autoImportTimer /\ ~process.exited
  /\ announced(runImport(NoOptions))
  /\ UNCHANGED <<now, published, cumulativeState, conns, resp, process, disk>>

\* The agent appends a line to its session file.
AppendLine ==
  /\ disk < Len(FileLines)
  /\ disk' = disk + 1
  /\ UNCHANGED <<now, agents, sessions, events, published, cumulativeState,
                 clients, conns, delivered, resp, process, import_state>>

\* SIGINT or SIGTERM: the shutdown handler.
shutdown ==
  /\ process.listening
  /\ process' = [process EXCEPT !.sessionChecker = FALSE,
                                !.autoImportTimer = FALSE,
                                !.listening = FALSE]
  /\ UNCHANGED <<now, agents, sessions, events, published, cumulativeState,
                 clients, conns, delivered, resp, import_state, disk>>

\* The callback of server.close, called once no connection is open.
ServerClosed ==
  /\ ~process.listening /\ ~process.exited
  /\ \A c \in ConnIds : clients[c].state = "live" => clients[c].destroyed
  /\ process' = [process EXCEPT !.exited = TRUE]
  /\ UNCHANGED <<now, agents, sessions, events, published, cumulativeState,
                 clients, conns, delivered, resp, import_state, disk>>

(***************************************************************************)
(* Timers                                                                  *)
(***************************************************************************)
\* The sessionChecker interval.
ReaperPass ==
  LET idled == idledChanges(sessions, now)
      payload == NoPayload
      doIt == idled > 0 /\ clientCount(clients) > 0
  IN /\ process.sessionChecker /\ ~process.exited
     /\ sessions' = updateIdleSessions(sessions, now)
     /\ clients' = IF doIt THEN broadcast(clients, "session_update", payload)
                   ELSE clients
     /\ delivered' = IF doIt THEN writtenTo(clients, payload) ELSE {}
     /\ UNCHANGED <<process, import_state, disk>>
     /\ UNCHANGED <<now, agents, events, published, cumulativeState, conns,
                    resp>>

\* The statsInterval of startStatsBroadcast.
StatsBroadcast ==
  /\ process.statsInterval /\ ~process.exited
  /\ clients' = IF clientCount(clients) = 0 THEN clients
                ELSE broadcast(clients, "stats", NoPayload)
  /\ delivered' = IF clientCount(clients) = 0 THEN {}
                  ELSE writtenTo(clients, NoPayload)
  /\ UNCHANGED <<process, import_state, disk>>
  /\ UNCHANGED <<now, agents, sessions, events, published, cumulativeState,
                 conns, resp>>

\* One heartbeat interval of client c.
Heartbeat(c) ==
  /\ clients[c].heartbeat /\ ~process.exited
  /\ clients' = [clients EXCEPT ![c] = writeOrRemove(@, "heartbeat", NoPayload)]
  /\ delivered' = IF safeWrite(clients[c]).wrote THEN {c} ELSE {}
  /\ UNCHANGED <<process, import_state, disk>>
  /\ UNCHANGED <<now, agents, sessions, events, published, cumulativeState,
                 conns, resp>>

\* Wall-clock time passes.
Tick ==
  /\ now < MaxTime
  /\ now' = now + 1
  /\ UNCHANGED <<process, import_state, disk>>
  /\ UNCHANGED <<agents, sessions, events, published, cumulativeState,
                 clients, conns, delivered, resp>>

(***************************************************************************)
(* Subscribers                                                             *)
(***************************************************************************)
\* GET /api/stream
AddClient(filters) ==
  LET id == conns + 1
      client == [NoClient EXCEPT !.state = "live",
                                 !.agentType = filters.agentType,
                                 !.eventType = filters.eventType,
                                 !.listeners = TRUE]
      written == safeWrite(client).c
  IN /\ process.listening
     /\ conns < MaxConns
     /\ conns' = id
     /\ IF atCapacity(clients)
          THEN /\ clients' = [clients EXCEPT ![id].state = "rejected"]
               /\ resp' = [NoResp EXCEPT !.status = 503]
          ELSE /\ clients' = [clients EXCEPT
                                ![id] = [written EXCEPT !.heartbeat = TRUE]]
               /\ resp' = [NoResp EXCEPT !.status = 200]
     /\ delivered' = {}
     /\ UNCHANGED <<process, import_state, disk>>
     /\ UNCHANGED <<now, agents, sessions, events, published,
                    cumulativeState>>

envUnchanged == <<now, agents, sessions, events, published, cumulativeState,
                  conns, delivered, resp, process, import_state, disk>>

\* The peer closes the connection: the socket is destroyed, 'close' is
\* about to be emitted.
Destroy(c) ==
  /\ clients[c].state = "live" /\ ~clients[c].destroyed
  /\ clients' = [clients EXCEPT ![c].destroyed = TRUE]
  /\ UNCHANGED envUnchanged

\* The 'close' or 'error' event of the response runs client.cleanup.
CloseEvent(c) ==
  /\ clients[c].destroyed /\ clients[c].listeners
  /\ clients' = [clients EXCEPT ![c] = removeClient(@)]
  /\ UNCHANGED envUnchanged

\* The socket buffer of c fills up: res.write will return false.
SockFill(c) ==
  /\ clients[c].state = "live" /\ clients[c].sock = "ok"
  /\ clients' = [clients EXCEPT ![c].sock = "full"]
  /\ UNCHANGED envUnchanged

\* The stream of c breaks: res.write will throw.
SockBreak(c) ==
  /\ clients[c].state = "live" /\ clients[c].sock # "broken"
  /\ clients' = [clients EXCEPT ![c].sock = "broken"]
  /\ UNCHANGED envUnchanged

\* The buffer of c empties; 'drain' is emitted if a write returned false.
Drain(c) ==
  /\ clients[c].sock = "full"
  /\ clients' = [clients EXCEPT
                   ![c].sock = "ok",
                   ![c].backpressureCount = IF clients[c].drainPending
                                              THEN 0 ELSE @,
                   ![c].drainPending = FALSE]
  /\ UNCHANGED envUnchanged

(***************************************************************************)
(* Specifications                                                          *)
(***************************************************************************)
\* Single-event ingestion, session lifecycle and the reaper.
Next ==
  \/ \E raw \in RawEvents : PostEvent(raw, FALSE)
  \/ ReaperPass
  \/ Tick

Spec == Init /\ [][Next]_vars

\* Single and batch ingestion on two sessions.
NextBatch ==
  \/ \E items \in SeqsUpTo(BatchItems, MaxBatch), faultAt \in 0..MaxBatch :
        PostBatch(items, faultAt)
  \/ \E raw \in BatchRaw, fault \in BOOLEAN : PostEvent(raw, fault)

SpecBatch == Init /\ [][NextBatch]_vars

\* OTLP metrics.
NextOtel ==
  \E dp \in DataPoints : PostOtelMetrics(<<dp>>, 0)

SpecOtel == Init /\ [][NextOtel]_vars

\* OTLP logs.
NextLogs ==
  \/ \E records \in LogPayloads : PostOtelLogs(records)
  \/ Tick

SpecLogs == Init /\ [][NextLogs]_vars

\* The three OTLP endpoints under every Content-Type.
NextOtlp ==
  \/ \E ct \in ContentTypes : OtelLogs(ct, <<BaseLog>>)
  \/ \E ct \in ContentTypes, id \in MetricSessions, v \in MetricValues :
       OtelMetrics(ct, <<[BasePoint EXCEPT !.session = id, !.value = v]>>)
  \/ \E ct \in ContentTypes : OtelTraces(ct)

SpecOtlp == Init /\ [][NextOtlp]_vars

\* The timers and subscribers of a server that is told to shut down.
NextShutdown ==
  \/ conns < MaxFeedConns /\ AddClient(NoFilter)
  \/ \E c \in ConnIds : Destroy(c)
  \/ \E c \in ConnIds : CloseEvent(c)
  \/ \E c \in ConnIds : Heartbeat(c)
  \/ PostEvent(BaseRaw, FALSE)
  \/ StatsBroadcast
  \/ ReaperPass
  \/ Tick
  \/ shutdown
  \/ ServerClosed

SpecShutdown == Init /\ [][NextShutdown]_vars

\* The import command under every combination of its options, on a session
\* file that grows.
NextImportCmd ==
  \/ \E options \in ImportOptions : Import(options)
  \/ AppendLine
  \/ Tick

SpecImportCmd == Init /\ [][NextImportCmd]_vars

\* The broadcaster with its subscribers, timers and producers.
NextSSE ==
  \/ \E f \in StreamFilters : AddClient(f)
  \/ \E c \in ConnIds : Destroy(c)
  \/ \E c \in ConnIds : CloseEvent(c)
  \/ \E c \in ConnIds : SockFill(c)
  \/ \E c \in ConnIds : SockBreak(c)
  \/ \E c \in ConnIds : Drain(c)
  \/ \E c \in ConnIds : Heartbeat(c)
  \/ StatsBroadcast

SpecSSE == Init /\ [][NextSSE]_vars

\* Producers publishing to connected subscribers.
NextFeed ==
  \/ \E f \in Filters : conns < MaxFeedConns /\ AddClient(f)
  \/ \E c \in ConnIds : Destroy(c)
  \/ \E c \in ConnIds : CloseEvent(c)
  \/ \E raw \in StreamRaw : PostEvent(raw, FALSE)
  \/ \E items \in StreamBatches : PostBatch(items, 0)
  \/ PostOtelMetrics(<<FeedPoint>>, 0)

SpecFeed == Init /\ [][NextFeed]_vars

\* Filtered and unfiltered subscribers, events and the stats timer.
NextFilter ==
  \/ \E f \in SubFilters : conns < MaxFeedConns /\ AddClient(f)
  \/ \E raw \in FilterRaw : PostEvent(raw, FALSE)
  \/ StatsBroadcast

SpecFilter == Init /\ [][NextFilter]_vars

\* Producers and heartbeats racing with subscribers that disconnect.
NextRace ==
  \/ conns < MaxFeedConns /\ AddClient(NoFilter)
  \/ \E c \in ConnIds : Destroy(c)
  \/ \E c \in ConnIds : CloseEvent(c)
  \/ \E c \in ConnIds : Heartbeat(c)
  \/ \E raw \in StreamRaw : PostEvent(raw, FALSE)

SpecRace == Init /\ [][NextRace]_vars

\* Producers publishing to subscribers whose connections go away, fill up
\* or break, on a store that can fail.
NextFaulty ==
  \/ conns < MaxFeedConns /\ AddClient(NoFilter)
  \/ \E c \in ConnIds : Destroy(c)
  \/ \E c \in ConnIds : SockFill(c)
  \/ \E c \in ConnIds : SockBreak(c)
  \/ \E raw \in FaultyRaw, fault \in BOOLEAN : PostEvent(raw, fault)

SpecFaulty == Init /\ [][NextFaulty]_vars

\* Metric requests that carry several reports of one cursor key.
NextCursor ==
  \/ \E points \in CursorRequests : PostOtelMetrics(points, 0)
  \/ Tick

SpecCursor == Init /\ [][NextCursor]_vars

\* Events with and without a caller-supplied cost.
NextCost ==
  \E raw \in CostRaw : PostEvent(raw, FALSE)

SpecCost == Init /\ [][NextCost]_vars

\* Events priced under every spelling of a model name.
NextPricing ==
  \E raw \in PricingRaw : PostEvent(raw, FALSE)

SpecPricing == Init /\ [][NextPricing]_vars

\* Session lifecycle: events that end sessions, imported events and the
\* session timeout checker.
NextLifecycle ==
  \/ \E raw \in LifecycleRaw : PostEvent(raw, FALSE)
  \/ ReaperPass
  \/ Tick

SpecLifecycle == Init /\ [][NextLifecycle]_vars

\* Events that set, keep or replace the project and branch of a session.
NextProject ==
  \E raw \in ProjectRaw : PostEvent(raw, FALSE)

SpecProject == Init /\ [][NextProject]_vars

\* Records of every validity submitted to POST /api/events.
NextContract ==
  \E raw \in ContractRaw : PostEvent(raw, FALSE)

SpecContract == Init /\ [][NextContract]_vars

\* Events with metadata payloads of every size.
NextMeta ==
  \/ \E raw \in MetaRaw : PostEvent(raw, FALSE)
  \/ Tick

SpecMeta == Init /\ [][NextMeta]_vars

\* The session timeout checker running while events arrive and subscribers
\* connect.
NextReaper ==
  \/ conns < MaxFeedConns /\ AddClient(NoFilter)
  \/ \E raw \in ReaperRaw : PostEvent(raw, FALSE)
  \/ ReaperPass
  \/ Tick

SpecReaper == Init /\ [][NextReaper]_vars

\* The historical import running in the server next to HTTP ingest.
NextImport ==
  \/ \E f \in Filters : conns < MaxFeedConns /\ AddClient(f)
  \/ \E c \in ConnIds : Destroy(c)
  \/ \E c \in ConnIds : CloseEvent(c)
  \/ \E raw \in StreamRaw : PostEvent(raw, FALSE)
  \/ AutoImport
  \/ AppendLine

SpecImport == Init /\ [][NextImport]_vars

(***************************************************************************)
(* Properties                                                              *)
(***************************************************************************)
\* C1: once a session's status is ended, no event and no reaper pass changes
\* it to active or idle.
C1_EndedIsTerminal ==
  [][\A id \in AllSessionIds :
       sessions[id].status = "ended" => sessions'[id].status = "ended"]_vars

\* An ended session for which a later event was accepted.
C1_Witness ==
  \E id \in SessionIds :
     /\ sessions[id].status = "ended"
     /\ sessions[id].last_event_at > sessions[id].ended_at

NoSharedEventId(evs) ==
  \A i, j \in 1..Len(evs) :
     (i # j /\ evs[i].event_id # NULL) => evs[i].event_id # evs[j].event_id

\* C2: submitting a valid event whose event_id is already stored returns the
\* duplicate outcome and stores no row; no two stored events share a
\* non-null event_id.
C2_DedupByEventId ==
  [][/\ NoSharedEventId(events')
     /\ \A raw \in BatchRaw :
          (/\ normalizeIngestEvent(raw).ok
           /\ normalizeIngestEvent(raw).event.event_id # NULL
           /\ \E i \in 1..Len(events) :
                 events[i].event_id = normalizeIngestEvent(raw).event.event_id
           /\ PostEvent(raw, FALSE))
          => (/\ resp'.status = 200
              /\ resp'.duplicates = 1
              /\ resp'.received = 0
              /\ events' = events)]_vars

\* A duplicate submitted on session s2 of an event stored for session s1.
C2_Witness ==
  /\ resp.status = 200
  /\ resp.duplicates = 1
  /\ Len(events) = 1
  /\ events[1].event_id = "e1"
  /\ events[1].session_id = "s1"
  /\ sessions["s2"].exists

\* C3: once a session_end event is stored for a session, every later event
\* stored for the same session leaves the session's status ended.
C3_EndStaysEnded ==
  \A i, j \in 1..Len(events) :
     (/\ i < j
      /\ events[i].session_id = events[j].session_id
      /\ events[i].event_type = "session_end")
     => sessions[events[i].session_id].status = "ended"

\* C4: a submit that resolves to duplicate creates no agent or session record
\* and changes no session's status, ended_at, last_event_at, project or
\* branch.
C4_DuplicateIsNoOp ==
  [][\A raw \in RawEvents :
       (PostEvent(raw, FALSE) /\ resp'.status = 200 /\ resp'.duplicates = 1)
       => (/\ \A a \in AllAgentTypes : agents'[a].exists = agents[a].exists
           /\ \A id \in AllSessionIds :
                /\ sessions'[id].exists = sessions[id].exists
                /\ sessions'[id].status = sessions[id].status
                /\ sessions'[id].ended_at = sessions[id].ended_at
                /\ sessions'[id].last_event_at = sessions[id].last_event_at
                /\ sessions'[id].project = sessions[id].project
                /\ sessions'[id].branch = sessions[id].branch)]_vars

NoRepeat(seq) == \A i, j \in 1..Len(seq) : i # j => seq[i] # seq[j]

\* The ids of the rows a step has stored.
NewRowIds == [k \in 1..(Len(events') - Len(events)) |-> events'[Len(events) + k].id]

\* C5: a submit that resolves to duplicate hands nothing to the broadcaster
\* (what is published in a step is exactly the rows stored in that step), and
\* no subscriber gets two event messages for one row.
C5_NoBroadcastOnDuplicate ==
  [][/\ published' = published \o NewRowIds
     /\ \A c \in ConnIds :
          /\ NoRepeat(clients'[c].received)
          /\ \A k \in 1..Len(clients'[c].received) :
               \/ \E m \in 1..Len(clients[c].received) :
                     clients[c].received[m] = clients'[c].received[k]
               \/ \E m \in 1..Len(NewRowIds) :
                     NewRowIds[m] = clients'[c].received[k]
     /\ \A raw \in StreamRaw :
          (resp'.status = 200 /\ resp'.duplicates = 1 /\ PostEvent(raw, FALSE))
          => (published' = published /\ clients' = clients)
     /\ \A items \in StreamBatches :
          (resp'.status = 201 /\ resp'.duplicates >= 1 /\ PostBatch(items, 0))
          => Len(published') = Len(published) + resp'.received
     /\ (resp'.status = 200 /\ PostOtelMetrics(<<FeedPoint>>, 0))
          => (/\ resp'.duplicates = 0
              /\ Len(published') = Len(published) + Len(resp'.ids))]_vars

\* A duplicate was submitted while a subscriber that got the original is live.
C5_Witness ==
  /\ resp.duplicates >= 1
  /\ \E c \in ConnIds :
        clients[c].state = "live" /\ Len(clients[c].received) = Len(events)
          /\ Len(events) >= 1

keyOf(dp) ==
  cacheKey(metricSessionId(dp.session), resolveServiceName(dp.service),
           dp.metric, dp.model, dp.tokenType)

\* C6: on one cursor key the first cumulative report yields the reported
\* value, a later report the increase over the previous report, and a report
\* equal to the previous one no event.
C6_CumulativeDelta ==
  [][\A dp \in DataPoints :
       (dp.cumulative /\ PostOtelMetrics(<<dp>>, 0))
       => LET prev == IF keyOf(dp) \in DOMAIN cumulativeState
                        THEN cumulativeState[keyOf(dp)] ELSE NoValue
              expected == IF prev = NoValue THEN dp.value
                          ELSE dp.value - prev
          IN /\ cumulativeState'[keyOf(dp)] = dp.value
             /\ expected > 0 =>
                  /\ Len(events') = Len(events) + 1
                  /\ events'[Len(events')].tokens_in = expected
                  /\ events'[Len(events')].session_id = metricSessionId(dp.session)
             /\ expected = 0 => events' = events]_vars

\* Reports 1000, 1500, 1500 on one key: events carrying 1000 and 500, and a
\* third report that stored nothing.
C6_Witness ==
  /\ Len(events) = 2
  /\ events[1].tokens_in = 1000 /\ events[1].session_id = "sA|b"
  /\ events[2].tokens_in = 500 /\ events[2].session_id = "sA|b"
  /\ resp.status = 200 /\ resp.ids = <<>>
  /\ DOMAIN cumulativeState = {keyOf([BasePoint EXCEPT !.session = "sA|b"])}
  /\ cumulativeState[keyOf([BasePoint EXCEPT !.session = "sA|b"])] = 1500

\* C7: a report for one session never changes the stored baseline of a cursor
\* key that belongs to another session.
C7_SessionScoped ==
  [][\A dp \in DataPoints :
       PostOtelMetrics(<<dp>>, 0)
       => \A k \in DOMAIN cumulativeState :
            (\E other \in DataPoints :
                other.session # dp.session /\ keyOf(other) = k)
            => cumulativeState'[k] = cumulativeState[k]]_vars

\* C8: the number of live subscribers never exceeds the maximum; a subscribe
\* attempt at the maximum is rejected, adds no subscriber, starts no
\* heartbeat timer and leaves the live subscribers as they are.
C8_Capacity ==
  [][/\ clientCount(clients') <= maxSseClients
     /\ \A f \in StreamFilters :
          (AddClient(f) /\ clientCount(clients) = maxSseClients)
          => (/\ resp'.status = 503
              /\ Live(clients') = Live(clients)
              /\ \A c \in ConnIds :
                   /\ clients'[c].heartbeat = clients[c].heartbeat
                   /\ c \in Live(clients) => clients'[c] = clients[c])]_vars

C8_Witness ==
  /\ resp.status = 503
  /\ clientCount(clients) = maxSseClients
  /\ \E c \in ConnIds : clients[c].state = "rejected"

\* The writes that safeWrite reports as failed.
WriteFails(c) ==
  \/ c.destroyed \/ c.writableEnded
  \/ c.sock = "broken"
  \/ c.sock = "full" /\ c.backpressureCount + 1 >= maxBackpressureWrites

\* C9: a disconnect (close or error event, failed write, backpressure
\* removal) releases the subscriber's slot, and a subscribe attempt below the
\* maximum is accepted.
C9_SlotReleased ==
  [][/\ \A c \in Live(clients) :
          (CloseEvent(c) \/ (Heartbeat(c) /\ WriteFails(clients[c])))
          => (/\ c \notin Live(clients')
              /\ clientCount(clients') = clientCount(clients) - 1)
     /\ StatsBroadcast
          => Live(clients') =
               {c \in Live(clients) :
                  ~(filterPasses(clients[c], NoPayload)
                      /\ WriteFails(clients[c]))}
     /\ \A f \in StreamFilters :
          (AddClient(f) /\ clientCount(clients) < maxSseClients)
          => (/\ resp'.status = 200
              /\ clients'[conns'].state = "live"
              /\ clients'[conns'].heartbeat)]_vars

\* Two subscribers, a third attempt rejected, one disconnects, the fourth
\* attempt accepted.
C9_Witness ==
  /\ resp.status = 200
  /\ clients[3].state = "rejected"
  /\ clients[4].state = "live"
  /\ \E c \in {1, 2} : clients[c].state = "removed"

\* C10: a batch that is answered reports received + duplicates + rejected =
\* n, rejects exactly the zero-based positions of the invalid items, and
\* stores every valid item whose event_id is new, whatever precedes it.  (A
\* batch is answered with 201 exactly when no INSERT hit a store fault, and
\* such a step is the step PostBatch(items, 0).)
C10_BatchPerItem ==
  [][\A items \in SeqsUpTo(BatchItems, MaxBatch) :
       (resp'.status = 201 /\ PostBatch(items, 0))
       => LET n == Len(items)
              bad == {i \in 1..n : normalizeErrors(items[i]) # {}}
              eid(i) == items[i].event_id
              fresh(i) ==
                /\ i \notin bad
                /\ \/ eid(i) = NULL
                   \/ /\ \A k \in 1..Len(events) : events[k].event_id # eid(i)
                      /\ \A j \in 1..(i - 1) : j \in bad \/ eid(j) # eid(i)
              stored == {i \in 1..n : fresh(i)}
          IN /\ resp'.received + resp'.duplicates + Len(resp'.rejected) = n
             /\ Len(resp'.rejected) = Cardinality(bad)
             /\ \A k \in 1..Len(resp'.rejected) :
                  /\ resp'.rejected[k] + 1 \in bad
                  /\ k > 1 => resp'.rejected[k - 1] < resp'.rejected[k]
             /\ resp'.received = Cardinality(stored)
             /\ Len(events') = Len(events) + Cardinality(stored)
             /\ \A i \in stored :
                  \E k \in (Len(events) + 1)..Len(events') :
                     /\ events'[k].session_id = items[i].session_id
                     /\ events'[k].event_id = eid(i)]_vars

\* An invalid item followed by a valid item that was stored.
C10_Witness ==
  /\ resp.status = 201
  /\ resp.received = 1
  /\ resp.ids = <<Len(events)>>
  /\ resp.rejected = <<0>>

\* C11: a submit whose INSERT INTO events fails with a store fault leaves no
\* partial state: no agent or session record is created or touched and no
\* lifecycle transition is applied.
C11_FaultLeavesNoTrace ==
  [][\A raw \in BatchRaw :
       (resp'.status = 500 /\ PostEvent(raw, TRUE))
       => (agents' = agents /\ sessions' = sessions)]_vars

\* C12: every stored event row, whichever producer submitted it, has been
\* handed to the broadcaster exactly once.
C12_StoredRowPublishedOnce ==
  \A i \in 1..Len(events) :
     Cardinality({k \in 1..Len(published) : published[k] = events[i].id}) = 1

\* C13: once a session's ended_at is non-null it never changes, whatever
\* events or reaper passes follow.
C13_EndedAtSetOnce ==
  [][\A id \in AllSessionIds :
       sessions[id].ended_at # NoTime
       => sessions'[id].ended_at = sessions[id].ended_at]_vars

\* C14: every stored event has an event_type of the closed enumeration.
C14_StoredTypeInEnum ==
  \A i \in 1..Len(events) : events[i].event_type \in EVENT_TYPES


\* C15: every stored event's source is one of api, hook, otel, import; a
\* submitted record with any other source is never stored with that value.
C15_StoredSourceInEnum ==
  \A i \in 1..Len(events) : events[i].source \in EVENT_SOURCES


\* C16: an OTLP metric data point whose resource carries no session id is
\* dropped: no event is stored, no session record is created and no
\* cumulative cursor is updated.
C16_NoSessionMetricDropped ==
  [][\A dp \in DataPoints :
       (dp.session = NULL /\ PostOtelMetrics(<<dp>>, 0))
       => /\ events' = events
          /\ sessions' = sessions
          /\ cumulativeState' = cumulativeState]_vars


\* A log record that carries no session id in its attributes, in the
\* resource attributes or in its JSON body.
NoSessionId(lr) ==
  /\ ~Truthy(lr.attrSession) /\ ~Truthy(lr.resSession)
  /\ ~Truthy(lr.resGenAiSession) /\ ~Truthy(lr.bodySession)

Attributed(lr) == ~NoSessionId(lr)

C18_ReaperNotifies ==
  [][(ReaperPass /\ \E id \in AllSessionIds :
                       sessions'[id].status # sessions[id].status)
     => /\ writtenTo(clients, NoPayload) # {} => delivered' # {}
        /\ clientCount(clients) = 0
             => (delivered' = {} /\ clients' = clients)]_vars


\* What truncateMetadata measures against the cap: a string payload as it
\* is, any other payload as its JSON text.
serialization(metadata) ==
  IF metadata.kind = "string" THEN metadata.text
  ELSE safeJsonStringify(metadata)

C20_SuppliedCostKept ==
  [][\A raw \in CostRaw :
       (raw.cost_usd >= 0 /\ resp'.status = 201 /\ PostEvent(raw, FALSE))
       => events'[Len(events')].cost_usd = raw.cost_usd]_vars

\* A priced model with tokens stored once with the supplied cost 0 and once,
\* no cost supplied, with the computed cost.
C20_Witness ==
  /\ Len(events) = 2
  /\ lookupFound(events[1].model) /\ events[1].tokens_in > 0
  /\ events[1].cost_usd = 0
  /\ lookupFound(events[2].model) /\ events[2].tokens_in > 0
  /\ events[2].tokens_out > 0
  /\ events[2].cost_usd = 450000000


\* C21: when the caller supplied no cost, the stored cost_usd is unset
\* (never 0) whenever the model is absent or unknown to the registry, or
\* tokens_in and tokens_out are both zero.
C21_CostLeftUnset ==
  [][\A raw \in CostRaw :
       (/\ raw.cost_usd = NoNum
        /\ \/ ~Truthy(raw.model)
           \/ ~lookupFound(raw.model)
           \/ (OrZero(raw.tokens_in) = 0 /\ OrZero(raw.tokens_out) = 0)
        /\ resp'.status = 201
        /\ PostEvent(raw, FALSE))
       => events'[Len(events')].cost_usd = NoNum]_vars

\* An unknown model with tokens, then a priced model with zero tokens, both
\* stored without a cost.
C21_Witness ==
  /\ Len(events) = 2
  /\ events[1].model = "totally-unknown-model" /\ events[1].tokens_in > 0
  /\ events[1].cost_usd = NoNum
  /\ lookupFound(events[2].model)
  /\ events[2].tokens_in = 0 /\ events[2].tokens_out = 0
  /\ events[2].cost_usd = NoNum


\* The fields of a record that break a rule of the Event Contract.
violations(raw) ==
  {f \in {"session_id", "agent_type", "event_type"} :
     raw[f] = NULL \/ raw[f] \in {"", " "}}
  \cup (IF raw.event_type \notin EVENT_TYPES THEN {"event_type"} ELSE {})
  \cup (IF raw.status # NULL /\ raw.status \notin EVENT_STATUSES
          THEN {"status"} ELSE {})
  \cup {f \in {"tokens_in", "tokens_out", "cost_usd"} :
          raw[f] # NoNum /\ raw[f] < 0}
  \cup (IF raw.client_timestamp \in {"not-a-date"}
          THEN {"client_timestamp"} ELSE {})

\* C22: the Event Contract is exhaustive: the error list names every field
\* that breaks a rule, and the result is a canonical event exactly when no
\* field breaks one.
C22_ContractExhaustive ==
  [][\A raw \in ContractRaw :
       PostEvent(raw, FALSE)
       => /\ normalizeIngestEvent(raw).ok <=> violations(raw) = {}
          /\ (resp'.status = 400) <=> violations(raw) # {}
          /\ resp'.details = violations(raw)]_vars

\* Five fields failing in one record, all five reported.
C22_Witness ==
  /\ resp.status = 400
  /\ resp.details = {"session_id", "event_type", "status", "tokens_in",
                     "client_timestamp"}


\* Content-Type headers that declare protobuf.
Protobuf ==
  {"application/x-protobuf", "application/protobuf",
   "application/x-protobuf; charset=utf-8"}

\* C23: an OTLP request that declares a protobuf content type is answered
\* 415 and stores no event, creates no session and moves no cumulative
\* cursor.
C23_ProtobufRejected ==
  [][\A ct \in Protobuf :
       (\/ \E a \in LogRecords : OtelLogs(ct, <<a>>)
        \/ \E dp \in DataPoints : OtelMetrics(ct, <<dp>>)
        \/ OtelTraces(ct))
       => /\ resp'.status = 415
          /\ UNCHANGED <<agents, sessions, events, cumulativeState,
                         published>>]_vars

\* A protobuf request rejected by a server that already holds OTLP events and
\* a cursor.
C23_Witness ==
  /\ resp.status = 415
  /\ Len(events) > 0
  /\ cumulativeState # <<>>


\* C24: once the shutdown handler has run, no reaper pass, heartbeat write,
\* stats broadcast or auto-import fires again.
C24_NoTimerAfterShutdown ==
  [][~process.listening
       => ~(\/ ReaperPass
            \/ AutoImport
            \/ StatsBroadcast
            \/ \E c \in ConnIds : Heartbeat(c))]_vars

\* C25: a date-scoped import or a dry run leaves the import state of the file
\* as it was, so a file that an unscoped, unforced import would have parsed
\* before is still parsed by one afterwards.
C25_ScopedImportKeepsState ==
  [][\A options \in ImportOptions :
       ((options.dryRun \/ isDateScoped(options)) /\ Import(options))
       => /\ import_state' = import_state
          /\ ~skippedUnchanged(import_state, disk, NoOptions)
               => ~skippedUnchanged(import_state', disk', NoOptions)]_vars

\* A date-scoped import has stored one of the two lines of the file and no
\* import state exists.
C25_Witness ==
  /\ disk = 2
  /\ Len(events) = 1
  /\ import_state = NULL


\* The canonical model a stem names: itself, the target of the alias, or
\* none.
canonicalOf(stem) ==
  IF stem \in PricingModels THEN stem
  ELSE IF stem \in DOMAIN PricingAliases THEN PricingAliases[stem]
  ELSE NULL

\* C26: a canonical name, each of its aliases, and each of these behind a
\* provider prefix are looked up and priced alike; a name that matches none
\* is not found and yields no cost.
C26_SpellingsPricedAlike ==
  [][\A stem \in ModelStems, p \in ProviderPrefixes \cup {""} :
       \A raw \in {r \in PricingRaw : r.model = p \o stem} :
         (/\ resp'.status = 201
          /\ events'[Len(events')].model = raw.model
          /\ PostEvent(raw, FALSE))
         => /\ lookup(raw.model) = canonicalOf(stem)
            /\ events'[Len(events')].cost_usd
                 = IF canonicalOf(stem) = NULL THEN NoNum
                   ELSE calculate(canonicalOf(stem), raw.tokens_in,
                                  raw.tokens_out, 0, 0)]_vars

\* An alias behind a provider prefix priced like its canonical model, next to
\* an unknown name left without a cost.
C26_Witness ==
  /\ Len(events) = 2
  /\ events[1].model = "google/sonnet"
  /\ events[1].cost_usd
       = calculate("claude-sonnet-4-5-20250929", 1000000, 100000, 0, 0)
  /\ events[1].cost_usd > 0
  /\ events[2].model = "openai/unknown-model-xyz"
  /\ events[2].cost_usd = NoNum


\* What a session_end of the given agent type leaves of a session that had
\* not ended.
EndedBy(raw, s, t) ==
  IF raw.agent_type = "claude_code"
    THEN s.status = "idle" /\ s.ended_at = NoTime
    ELSE s.status = "ended" /\ s.ended_at = t

C28_ImportEndsSession ==
  [][\A raw \in LifecycleRaw :
       (raw.source = "import" /\ PostEvent(raw, FALSE))
       => sessions'[raw.session_id].status = "ended"]_vars

\* An imported tool_use that ended a session a claude_code session_end had
\* idled.
C28_Witness ==
  /\ Len(events) = 2
  /\ events[1].event_type = "session_end"
  /\ events[1].agent_type = "claude_code"
  /\ events[1].source = "api"
  /\ events[2].event_type = "tool_use"
  /\ events[2].source = "import"
  /\ now = 0
  /\ sessions["s1"].status = "ended"
  /\ sessions["s1"].ended_at = 0

\* The value an optional string field supplies: none when absent or blank.
Supplied(raw) == IF raw = NULL \/ raw \in {"", " "} THEN NULL ELSE raw

ReaperMove(s, s2, t) ==
  \/ s2 = s
  \/ /\ s.status = "active"
     /\ s.last_event_at < t - sessionTimeoutMinutes
     /\ s2 = [s EXCEPT !.status = "idle"]
  \/ /\ s.status \in {"active", "idle"}
     /\ s.last_event_at < t - sessionTimeoutMinutes * 2
     /\ s2 = [s EXCEPT !.status = "ended", !.ended_at = t]

\* C30: a reaper pass moves a session from active to idle and from idle to
\* ended only, each past its threshold; it leaves every ended session and
\* every session whose last event is within the idle threshold as they were.
C30_ReaperMoves ==
  [][ReaperPass
       => \A id \in AllSessionIds :
            /\ ReaperMove(sessions[id], sessions'[id], now)
            /\ sessions[id].status = "ended" => sessions'[id] = sessions[id]
            /\ sessions[id].last_event_at >= now - sessionTimeoutMinutes
                 => sessions'[id] = sessions[id]]_vars

\* A session the reaper idled: no session_end was submitted for it and its
\* last event is older than the idle threshold.
C30_Witness ==
  /\ Len(events) = 1
  /\ events[1].event_type = "tool_use"
  /\ events[1].source = "api"
  /\ sessions["s1"].status = "idle"
  /\ sessions["s1"].last_event_at < now - sessionTimeoutMinutes


\* A filter that is absent or equal to the event's value, for both fields.
Matches(c, raw) ==
  /\ c.agentType = NULL \/ c.agentType = raw.agent_type
  /\ c.eventType = NULL \/ c.eventType = raw.event_type

\* C31: a published event is written to exactly the live subscribers whose
\* filter is absent or matches its agent_type and event_type; every other
\* subscriber is left as it was.
C31_FilteredDelivery ==
  [][\A raw \in FilterRaw :
       (resp'.status = 201 /\ PostEvent(raw, FALSE))
       => \A c \in ConnIds :
            IF clients[c].state = "live" /\ Matches(clients[c], raw)
              THEN /\ c \in delivered'
                   /\ clients'[c].received
                        = Append(clients[c].received, events'[Len(events')].id)
              ELSE /\ c \notin delivered'
                   /\ clients'[c] = clients[c]]_vars

\* A codex event went to the unfiltered subscriber and passed by the one
\* that asked for codex session_end events, which is still live.
C31_Witness ==
  /\ Len(events) = 1
  /\ events[1].agent_type = "codex" /\ events[1].event_type = "tool_use"
  /\ clients[1].state = "live" /\ clients[1].agentType = "codex"
  /\ clients[1].eventType = "session_end"
  /\ clients[1].received = <<>> /\ clients[1].backpressureCount = 0
  /\ clients[2].state = "live" /\ clients[2].agentType = NULL
  /\ clients[2].eventType = NULL
  /\ clients[2].received = <<1>>

\* C40: a stats snapshot is written to every live subscriber, filtered or
\* not.
C40_AggregatesUnfiltered ==
  [][StatsBroadcast => \A c \in Live(clients) : c \in delivered']_vars


\* A step in which the heartbeat timer or a stats broadcast writes to c.
WrittenTo(c) ==
  \/ Heartbeat(c)
  \/ StatsBroadcast /\ filterPasses(clients[c], NoPayload)

\* A subscriber that has been moved to closing.
Closed(c) ==
  /\ c.state = "removed"
  /\ ~c.heartbeat
  /\ c.writableEnded \/ c.destroyed

\* C32: a write that fails, or the third consecutive write that reports a
\* full buffer, closes the subscriber; a full-buffer write below the third
\* only raises the count, and a successful write or a drain resets it.
C32_BackpressureDisconnect ==
  [][\A c \in Live(clients) :
       /\ clients[c].backpressureCount < maxBackpressureWrites
       /\ WrittenTo(c)
            => IF clients[c].destroyed \/ clients[c].sock = "broken"
                 THEN Closed(clients'[c])
               ELSE IF clients[c].sock = "full"
                 THEN IF clients[c].backpressureCount + 1
                           = maxBackpressureWrites
                        THEN Closed(clients'[c])
                        ELSE /\ clients'[c].state = "live"
                             /\ clients'[c].backpressureCount
                                  = clients[c].backpressureCount + 1
               ELSE /\ clients'[c].state = "live"
                    /\ clients'[c].backpressureCount = 0
       /\ (Drain(c) /\ clients[c].drainPending)
            => /\ clients'[c].state = "live"
               /\ clients'[c].backpressureCount = 0]_vars

\* A subscriber closed by its third full-buffer write next to one that took
\* two of them and is still live.
C32_Witness ==
  /\ clients[1].state = "removed" /\ clients[1].writableEnded
  /\ ~clients[1].destroyed
  /\ clients[2].state = "live" /\ clients[2].sock = "full"
  /\ clients[2].backpressureCount = maxBackpressureWrites - 1


\* C33: whichever trigger runs the cleanup of a live subscriber (the close
\* or error signal, a failed heartbeat write, a failed publish), the
\* subscriber leaves the live set, its heartbeat timer and listeners are
\* gone, and running the cleanup again leaves that state as it is; a single
\* trigger lowers the live count by exactly one.
C33_CleanupIdempotent ==
  [][/\ \A c \in Live(clients) :
          (CloseEvent(c) \/ (WrittenTo(c) /\ WriteFails(clients[c])))
          => /\ c \notin Live(clients')
             /\ ~clients'[c].heartbeat
             /\ ~clients'[c].listeners
             /\ removeClient(clients'[c]) = clients'[c]
             /\ clients'[c] = removeClient(removeClient(clients[c]))
     /\ \A c \in Live(clients) :
          (CloseEvent(c) \/ (Heartbeat(c) /\ WriteFails(clients[c])))
          => /\ clientCount(clients') = clientCount(clients) - 1
             /\ clientCount([clients' EXCEPT ![c] = removeClient(@)])
                  = clientCount(clients) - 1
     /\ \A c \in ConnIds :
          (clients[c].state = "removed" /\ ~clients[c].heartbeat)
          => /\ clients'[c].state = "removed" /\ ~clients'[c].heartbeat
             /\ ~ENABLED Heartbeat(c)
             /\ ~ENABLED CloseEvent(c)]_vars

\* One subscriber cleaned up by its close signal, the other by a failed
\* write, and nobody left in the live set.
C33_Witness ==
  /\ clients[1].state = "removed" /\ clients[1].destroyed
  /\ clients[2].state = "removed" /\ clients[2].writableEnded
  /\ ~clients[2].destroyed
  /\ clientCount(clients) = 0


\* A subscriber whose connection is there and whose socket takes a write.
Healthy(c) ==
  /\ c.state = "live"
  /\ ~c.destroyed /\ ~c.writableEnded
  /\ c.sock = "ok"

\* A subscriber that has disconnected, cleaned up already or not yet.
Gone(c) == c.state = "removed" \/ c.destroyed \/ c.writableEnded

\* C34: a publish or heartbeat that meets a subscriber that has disconnected
\* writes nothing to its connection, raises no error and leaves it out of
\* the live set, and every healthy subscriber still receives the message.
C34_RaceWithDisconnect ==
  [][/\ \A raw \in StreamRaw :
          (PostEvent(raw, FALSE) /\ Len(events') = Len(events) + 1)
          => /\ resp'.status = 201
             /\ \A c \in ConnIds :
                  /\ Gone(clients[c])
                       => /\ c \notin delivered'
                          /\ clients'[c] = removeClient(clients[c])
                  /\ Healthy(clients[c])
                       => /\ c \in delivered'
                          /\ clients'[c].state = "live"
                          /\ clients'[c].received
                               = Append(clients[c].received,
                                        events'[Len(events')].id)
     /\ \A c \in ConnIds :
          Heartbeat(c)
          => /\ Gone(clients[c])
                  => /\ delivered' = {}
                     /\ clients'[c] = removeClient(clients[c])
             /\ Healthy(clients[c])
                  => delivered' = {c} /\ clients'[c].state = "live"
             /\ \A d \in ConnIds \ {c} : clients'[d] = clients[d]
     /\ \A c \in ConnIds :
          clients[c].state = "removed" => ~ENABLED Heartbeat(c)]_vars

\* The first subscriber has disconnected and is out of the live set; the
\* event published meanwhile was written to the second subscriber only.
C34_Witness ==
  /\ Len(events) = 1 /\ resp.status = 201
  /\ clients[1].state = "removed" /\ clients[1].destroyed
  /\ clients[2].state = "live" /\ clients[2].received = <<1>>
  /\ delivered = {2}


\* The position of message x in the publication order.
publishedAt(x) == CHOOSE k \in 1..Len(published) : published[k] = x

\* C35: what a subscriber has received is a selection of the published
\* messages in publication order: of two messages it received, the one
\* published first was received first.
C35_DeliveryOrder ==
  \A c \in ConnIds :
    LET r == clients[c].received
    IN /\ \A i \in 1..Len(r) : \E k \in 1..Len(published) : published[k] = r[i]
       /\ \A i, j \in 1..Len(r) :
            i < j => publishedAt(r[i]) < publishedAt(r[j])

\* A subscriber that received every published message in publication order,
\* next to one that connected later and received the last one only.
C35_Witness ==
  /\ Len(published) >= 2
  /\ \E c \in Live(clients) : clients[c].received = published
  /\ \E c \in Live(clients) :
       /\ Len(clients[c].received) = 1
       /\ clients[c].received[1] = published[Len(published)]


\* What the ingest loop of POST /api/events does when nobody is subscribed.
withoutSubscribers(raw, fault) ==
  ingestLoop([loopStart EXCEPT !.clients = [c \in ConnIds |-> NoClient]],
             <<normalizeIngestEvent(raw)>>, 1, now,
             IF fault THEN 1 ELSE 0, TRUE)

writerBefore(points, i) ==
  LET earlier == {j \in 1..(i - 1) : keyOf(points[j]) = keyOf(points[i])}
  IN IF earlier = {} THEN 0
     ELSE CHOOSE j \in earlier : \A k \in earlier : k <= j

\* The previous value report i has to observe: the value written by the
\* report before it on its key, in this request or an earlier one.
observedBy(cs, points, i) ==
  IF writerBefore(points, i) = 0 THEN lastValueOf(cs, keyOf(points[i]))
  ELSE points[writerBefore(points, i)].value

\* The positive deltas of a request, in report order.
deltasOf(cs, points) ==
  SelectSeq([i \in 1..Len(points) |->
               deltaOf(observedBy(cs, points, i), points[i].value)],
            LAMBDA d : d > 0)

C38_CounterReset ==
  [][\A points \in CursorRequests :
       (/\ lastValueOf(cumulativeState, keyOf(points[1])) > points[1].value
        /\ PostOtelMetrics(points, 0))
       => IF Len(points) = 1
            THEN /\ events' = events
                 /\ resp'.ids = <<>>
                 /\ cumulativeState'[keyOf(points[1])] = points[1].value
          ELSE (/\ keyOf(points[2]) = keyOf(points[1])
                /\ points[2].value > points[1].value)
               => /\ Len(events') = Len(events) + 1
                  /\ events'[Len(events')].tokens_in
                       = points[2].value - points[1].value
                  /\ cumulativeState'[keyOf(points[2])] = points[2].value]_vars

\* Reports 1500, 500, 1500 on one key: an event of 1500, nothing for the
\* reset, and an event of 1000 measured from 500.
C38_Witness ==
  /\ Len(events) = 2
  /\ events[1].tokens_in = 1500 /\ events[2].tokens_in = 1000
  /\ events[1].session_id = "sA" /\ events[2].session_id = "sA"
  /\ cumulativeState[keyOf(BasePoint)] = 1500


\* C39: a stored session has an ended_at exactly when its status is ended.
C39_EndedAtIffEnded ==
  \A id \in DOMAIN sessions :
    sessions[id].exists
    => (sessions[id].ended_at # NoTime <=> sessions[id].status = "ended")

\* A session that was ended and has taken an event since: it is still
\* ended and keeps its ended_at.
C39_Witness ==
  \E id \in DOMAIN sessions :
    /\ sessions[id].exists /\ sessions[id].status = "ended"
    /\ sessions[id].ended_at # NoTime
    /\ sessions[id].last_event_at > sessions[id].ended_at

====
